---- MODULE Spec2Model ----
(***************************************************************************)
(* One /chat invocation of the streaming relay (src/unnamed/part_008, both *)
(* deployed versions) and the page that consumes its response              *)
(* (src/src/pages/ChatPage.tsx, handleSend).                               *)
(*                                                                         *)
(* Text is a sequence of tokens.  A token is a record [k, c]: k names a    *)
(* run of characters no decoder looks inside ("data" is the six characters *)
(* `data: `, "nl" is a line feed, "json" is a chat-completion object whose *)
(* delta content is c, ...).  Network reads split a text between any two   *)
(* tokens; both decoders only ever act on whole lines, so a split inside a *)
(* token is the same as a split next to it.                                *)
(*                                                                         *)
(* Further sections follow the non-streaming /chat handler, parseCsv with  *)
(* the row loop of sync-doc, and two interleaved invocations of the sync   *)
(* handler (src/supabase/functions/chat/index.ts, src/unnamed/part_009),   *)
(* retrieval and prompt composition of /chat, the chat page with two       *)
(* handleSend calls, and the relay under a fair scheduler.                 *)
(* Each section has its own specification over the same variables.         *)
(***************************************************************************)
EXTENDS Integers, Sequences, FiniteSets, TLC

\* Largest number of lines the completion service sends before [DONE].
MaxRecords == 2
\* Largest number of tokens one network read hands over, short of "all of it".
MaxRead == 2

-----------------------------------------------------------------------------
(* Tokens *)

Tok(kind) == [k |-> kind, c |-> <<>>]

NL      == Tok("nl")        \* "\n"
CR      == Tok("cr")        \* "\r"
Data    == Tok("data")      \* "data: "
Done    == Tok("done")      \* "[DONE]"
Event   == Tok("event")     \* "event: citations"
Cit     == Tok("cit")       \* JSON.stringify(citations), a JSON array
Comment == Tok("comment")   \* ": keep-alive"
Trunc   == Tok("trunc")     \* an object cut short: `{"choices":[{"del`

Min(a, b) == IF a < b THEN a ELSE b

\* Delta contents the completion service sends.
Contents == { <<"a", "b", "c", "d">>, <<"e", "f", "g">> }

-----------------------------------------------------------------------------
(* String functions of the runtime, on token sequences *)

\* s.indexOf("\n"), 1-based; 0 when there is none.
IndexOfNL(s) ==
    IF \E i \in 1..Len(s) : s[i].k = "nl"
    THEN CHOOSE i \in 1..Len(s) :
            /\ s[i].k = "nl"
            /\ \A j \in 1..(i - 1) : s[j].k # "nl"
    ELSE 0

IsSpace(t) == t.k \in {"nl", "cr"}

RECURSIVE TrimStart(_)
TrimStart(s) ==
    IF s # <<>> /\ IsSpace(Head(s)) THEN TrimStart(Tail(s)) ELSE s

RECURSIVE TrimEnd(_)
TrimEnd(s) ==
    IF s # <<>> /\ IsSpace(s[Len(s)]) THEN TrimEnd(SubSeq(s, 1, Len(s) - 1)) ELSE s

\* s.trim()
Trim(s) == TrimEnd(TrimStart(s))

\* if (line.endsWith("\r")) line = line.slice(0, -1)
StripCR(line) ==
    IF line # <<>> /\ line[Len(line)].k = "cr"
    THEN SubSeq(line, 1, Len(line) - 1)
    ELSE line

StartsWith(s, kind) == s # <<>> /\ Head(s).k = kind

\* s.split("\n")
RECURSIVE SplitNL(_)
SplitNL(s) ==
    LET i == IndexOfNL(s) IN
    IF i = 0 THEN <<s>>
    ELSE <<SubSeq(s, 1, i - 1)>> \o SplitNL(SubSeq(s, i + 1, Len(s)))

\* JSON.stringify({ choices: [{ delta: { content: chunk } }] })
Json(chunk) == [k |-> "json", c |-> chunk]

\* JSON.parse(text): ok is FALSE when it throws; arr says the value is an
\* array; delta is parsed.choices?.[0]?.delta?.content (<<>> when absent).
ParseJSON(text) ==
    LET t == Trim(text) IN
    IF Len(t) = 1 /\ t[1].k = "json"
    THEN [ok |-> TRUE, arr |-> FALSE, delta |-> t[1].c]
    ELSE IF Len(t) = 1 /\ t[1].k = "cit"
    THEN [ok |-> TRUE, arr |-> TRUE, delta |-> <<>>]
    ELSE [ok |-> FALSE, arr |-> FALSE, delta |-> <<>>]

-----------------------------------------------------------------------------
(* The completion service's response body *)

\* The lines that carry answer text, in the order the service produces them.
DeltaSeqs == UNION { [1..n -> Contents] : n \in 0..MaxRecords }

\* How the body ends: with [DONE], with nothing more (the service omits
\* [DONE]), or with an object cut short.
Endings == { << <<Data, Done>> >>, <<>>, << <<Data, Trunc>> >> }

\* Line ends are LF or CRLF; a service may open with a comment line.
Styles == {"lf", "crlf", "comment"}

EOL(style) == IF style = "crlf" THEN <<CR, NL>> ELSE <<NL>>

\* The lines, each followed by a blank line; the last line is followed by
\* its line end and a blank line only when the body is terminated.
RECURSIVE Lines(_, _, _)
Lines(lines, style, terminated) ==
    IF lines = <<>> THEN <<>>
    ELSE IF Len(lines) = 1
    THEN Head(lines) \o (IF terminated THEN EOL(style) \o EOL(style) ELSE <<>>)
    ELSE Head(lines) \o EOL(style) \o EOL(style) \o Lines(Tail(lines), style, terminated)

Body(deltas, ending, style, terminated) ==
    Lines((IF style = "comment" THEN << <<Comment>> >> ELSE <<>>)
            \o [i \in 1..Len(deltas) |-> <<Data, Json(deltas[i])>>]
            \o ending,
          style, terminated)

\* A body whose last line lacks its line end is taken in the LF style only:
\* up to that line the styles differ as they do in terminated bodies.
Shapes == { <<style, TRUE>> : style \in Styles } \cup { <<"lf", FALSE>> }

UpstreamBodies ==
    { Body(deltas, ending, shape[1], shape[2]) :
        deltas \in DeltaSeqs, ending \in Endings, shape \in Shapes }

\* The sizes a read of n waiting tokens can have.
ReadSizes(n) == (1..Min(n, MaxRead)) \cup {n}

-----------------------------------------------------------------------------
(* Relay: pure parts *)

\* const chunkSize = 6
chunkSize == 6

\* `event: citations\ndata: ${JSON.stringify(citations)}\n\n`
citationsEvent == <<Event, NL, Data, Cit, NL, NL>>

\* `data: ${payload}\n\n`
DataRecord(chunk) == <<Data, Json(chunk), NL, NL>>

\* "data: [DONE]\n\n"
DoneRecord == <<Data, Done, NL, NL>>

\* The answer text a forwarded or collected line adds to fullAnswer.
Accumulate(line, answer) ==
    IF StartsWith(line, "data") /\ line # <<Data, Done>>
    THEN LET parsed == ParseJSON(Tail(line)) IN
         IF parsed.ok /\ parsed.delta # <<>> THEN answer \o parsed.delta ELSE answer
    ELSE answer

\* Persist-after-forward: the inner loop over the complete lines of
\* textBuffer; out is what it writes to the response stream.
RECURSIVE ForwardLines(_, _)
ForwardLines(buf, answer) ==
    LET newlineIdx == IndexOfNL(buf) IN
    IF newlineIdx = 0 THEN [buf |-> buf, answer |-> answer, out |-> <<>>]
    ELSE
      LET line == StripCR(SubSeq(buf, 1, newlineIdx - 1))
          r    == ForwardLines(SubSeq(buf, newlineIdx + 1, Len(buf)), Accumulate(line, answer))
      IN [buf |-> r.buf, answer |-> r.answer, out |-> line \o <<NL>> \o r.out]

\* Persist-then-replay: the inner loop over the complete lines of rawBuffer.
RECURSIVE CollectLines(_, _)
CollectLines(buf, answer) ==
    LET nl == IndexOfNL(buf) IN
    IF nl = 0 THEN [buf |-> buf, answer |-> answer]
    ELSE CollectLines(SubSeq(buf, nl + 1, Len(buf)),
                      Accumulate(StripCR(SubSeq(buf, 1, nl - 1)), answer))

\* for (let i = 0; i < fullAnswer.length; i += chunkSize) push(slice(i, i + chunkSize))
RECURSIVE Slices(_, _)
Slices(s, n) ==
    IF s = <<>> THEN <<>>
    ELSE <<SubSeq(s, 1, Min(n, Len(s)))>> \o Slices(SubSeq(s, n + 1, Len(s)), n)

-----------------------------------------------------------------------------
(* Page: pure parts *)

\* jsonStr.startsWith("[")
StartsWithBracket(s) == s # <<>> /\ Head(s).k \in {"cit", "done"}

\* textBuffer.startsWith("{\"0\""): no token of the streams begins that way.
StartsWithZeroKey(s) == s # <<>> /\ Head(s).k = "zerokey"

\* The inner loop of the reader over the complete lines of textBuffer.
RECURSIVE ClientLines(_, _)
ClientLines(buf, acc) ==
    LET newlineIdx == IndexOfNL(buf) IN
    IF newlineIdx = 0 THEN [buf |-> buf, acc |-> acc, done |-> FALSE]
    ELSE
      LET line    == StripCR(SubSeq(buf, 1, newlineIdx - 1))
          rest    == SubSeq(buf, newlineIdx + 1, Len(buf))
          jsonStr == Trim(Tail(line))
          parsed  == ParseJSON(jsonStr)
      IN
      IF Trim(line) = <<>> \/ StartsWith(line, "comment") THEN ClientLines(rest, acc)
      ELSE IF StartsWith(line, "event") THEN ClientLines(rest, acc)
      ELSE IF StartsWith(line, "data") /\ ~StartsWithZeroKey(rest) THEN
        IF rest = <<>> /\ StartsWithBracket(jsonStr) THEN ClientLines(rest, acc)
        ELSE IF jsonStr = <<Done>> THEN [buf |-> rest, acc |-> acc, done |-> TRUE]
        ELSE IF ~parsed.ok THEN [buf |-> line \o <<NL>> \o rest, acc |-> acc, done |-> FALSE]
        ELSE IF parsed.arr THEN ClientLines(rest, acc)
        ELSE ClientLines(rest, IF parsed.delta # <<>> THEN acc \o parsed.delta ELSE acc)
      ELSE ClientLines(rest, acc)

\* The loop over textBuffer.split("\n") of the final flush.
RECURSIVE FlushLines(_, _)
FlushLines(lines, acc) ==
    IF lines = <<>> THEN acc
    ELSE
      LET raw     == Head(lines)
          jsonStr == Trim(Tail(raw))
          parsed  == ParseJSON(jsonStr)
      IN
      IF raw = <<>> \/ StartsWith(raw, "comment") THEN FlushLines(Tail(lines), acc)
      ELSE IF ~StartsWith(raw, "data") THEN FlushLines(Tail(lines), acc)
      ELSE IF jsonStr = <<Done>> THEN FlushLines(Tail(lines), acc)
      ELSE IF parsed.ok /\ ~parsed.arr /\ parsed.delta # <<>>
      THEN FlushLines(Tail(lines), acc \o parsed.delta)
      ELSE FlushLines(Tail(lines), acc)

\* if (textBuffer.trim()) { for (const raw of textBuffer.split("\n")) ... }
ClientFlush(buf, acc) ==
    IF Trim(buf) = <<>> THEN acc ELSE FlushLines(SplitNL(buf), acc)

-----------------------------------------------------------------------------
(* State *)

VARIABLES
    variant,        \* which version of the function is deployed
    pc,             \* where the handler (and the task it starts) stands
    res,            \* HTTP status of the Response returned (0: none yet)
    convId,         \* conversation_id is present in the request body
    upState,        \* llmRes.body: "none", "open", "ended" (done) or "failed"
    upBody,         \* the whole body the completion service sends
    up,             \* the part of it not read yet
    textBuffer,     \* relay line buffer (rawBuffer in persist-then-replay)
    fullAnswer,
    answerChunks,   \* persist-then-replay: slices not enqueued yet
    tsBackpressure, \* TransformStream: the readable side has asked for nothing
    inserts,        \* messages.insert calls issued
    messages,       \* content of the assistant rows the store holds
    sent,           \* every byte written to the response stream, in order
    closed,         \* the relay closed the response stream
    cancelled,      \* the caller went away
    cpc,            \* where handleSend stands
    rd,             \* number of tokens of sent the page has read
    cBuffer,        \* handleSend's textBuffer
    accumulated,
    cDone,          \* handleSend's done
    outcome         \* "none", "success" (refreshMessages) or "failure" (toast)

server == <<variant, pc, res, convId, upState, upBody, up, textBuffer, fullAnswer,
            answerChunks, tsBackpressure, inserts, messages, sent, closed>>
client == <<cpc, rd, cBuffer, accumulated, cDone, outcome>>
vars == <<server, cancelled, client>>

Forward == "persist-after-forward"
Replay  == "persist-then-replay"

\* The /chat handler from the request to the completion call, in each of the
\* three functions of the repository (retrieval included).
VARIABLES
    handler,        \* which /chat function serves the request
    hpc,            \* where that handler stands
    request,        \* Authorization header, user, question, conversation_id
    response,       \* [status, error] of the Response returned (status 0: none)
    storeQueries,   \* rag_chunks queries issued
    llmCalls,       \* completion calls issued
    llmStatus,      \* llmRes.status (0: not called)
    messageWrites,  \* messages inserts issued
    sse             \* an SSE body has been started

chatVars == <<handler, hpc, request, response, storeQueries, llmCalls, llmStatus,
              messageWrites, sse>>

NonStreaming == "non-streaming"

NoResponse == [status |-> 0, error |-> ""]

\* No /chat request is being followed step by step.
ChatIdle ==
    /\ handler = NonStreaming
    /\ hpc = "idle"
    /\ request = [authHeader |-> FALSE, user |-> FALSE, question |-> "none",
                  conversation_id |-> FALSE]
    /\ response = NoResponse
    /\ storeQueries = 0
    /\ llmCalls = 0
    /\ llmStatus = 0
    /\ messageWrites = 0
    /\ sse = FALSE

\* parseCsv and the row loop of the sync-doc handler applied to one input.
VARIABLES
    csvSource,      \* the table behind body.csv: header line, data lines, line end
    csvRows,        \* rows, the result of parseCsv(csv)
    csvChunks,      \* the objects the row loop pushed to batch, in order
    csvPc

csvVars == <<csvSource, csvRows, csvChunks, csvPc>>

CsvIdle ==
    /\ csvSource = [header |-> <<>>, data |-> <<>>, eol |-> "lf"]
    /\ csvRows = <<>>
    /\ csvChunks = <<>>
    /\ csvPc = "idle"

\* Sync invocations (sync-doc, CSV; sync, embedding) and the two tables they
\* share.  Each invocation is one run of the handler.
VARIABLES
    syncVariant,    \* which sync function is deployed: "csv" or "embedding"
    sync_status,    \* the rows of public.sync_status
    rag_chunks,     \* the rows of public.rag_chunks with the function's DOC_ID
    spc,            \* per invocation: where the handler stands
    sourceLabel,    \* per invocation: body.source_label ?? "csv"
    rowCount,       \* per invocation: rows.length (CSV)
    todo,           \* per invocation: chunk_index of the chunks not inserted yet
    indexed,        \* per invocation: indexed (CSV), chunks.length (embedding)
    statusId,       \* per invocation: existingStatus?.id, then statusId
    msg,            \* per invocation: message of the error thrown in the try
    sresponse,      \* per invocation: the Response returned (status 0: none)
    statusWrite,    \* per invocation: the last sync_status write it issued
    wrote,          \* per invocation: it has issued a write to either table
    finishedBefore  \* per invocation: the invocations that had returned when it began

syncVars == <<syncVariant, sync_status, rag_chunks, spc, sourceLabel, rowCount, todo,
              indexed, statusId, msg, sresponse, statusWrite, wrote, finishedBefore>>

Syncs == {"s1", "s2"}

Null == "null"

NoSyncResponse == [status |-> 0, error |-> Null, chunk_count |-> 0]

NoWrite == [status |-> Null, error_message |-> Null]

\* INSERT INTO public.sync_status (status) VALUES ('idle')
SeedRow ==
    [id |-> "seed", status |-> "idle", chunk_count |-> 0, doc_title |-> Null,
     error_message |-> Null]

SyncIdle ==
    /\ syncVariant = "csv"
    /\ sync_status = {SeedRow}
    /\ rag_chunks = {}
    /\ spc = [p \in Syncs |-> "idle"]
    /\ sourceLabel = [p \in Syncs |-> Null]
    /\ rowCount = [p \in Syncs |-> 0]
    /\ todo = [p \in Syncs |-> <<>>]
    /\ indexed = [p \in Syncs |-> 0]
    /\ statusId = [p \in Syncs |-> Null]
    /\ msg = [p \in Syncs |-> Null]
    /\ sresponse = [p \in Syncs |-> NoSyncResponse]
    /\ statusWrite = [p \in Syncs |-> NoWrite]
    /\ wrote = [p \in Syncs |-> FALSE]
    /\ finishedBefore = [p \in Syncs |-> {}]

\* Retrieval and prompt composition of the /chat handler (the same code in
\* the three functions), over the csv-kb rows of rag_chunks.
VARIABLES
    ragQuestion,    \* question, as sent
    ragStore,       \* the csv-kb rows of rag_chunks, in the order queries return them
    rpc,            \* where the handler stands
    ragKeywords,    \* keywords
    ragData,        \* data of the keyword-filtered query
    ragChunks,      \* chunks
    ragPrompt,      \* [system, user] sent to the completion service
    ragCitations,   \* citations
    ragResponse,    \* [status, citations] of the Response (status 0: none)
    ragFailed       \* the queries that returned an error

ragVars == <<ragQuestion, ragStore, rpc, ragKeywords, ragData, ragChunks, ragPrompt,
             ragCitations, ragResponse, ragFailed>>

NoRagResponse == [status |-> 0, citations |-> <<>>]

NoPrompt == [system |-> Null, user |-> <<>>]

RagIdle ==
    /\ ragQuestion = <<>>
    /\ ragStore = <<>>
    /\ rpc = "idle"
    /\ ragKeywords = <<>>
    /\ ragData = <<>>
    /\ ragChunks = <<>>
    /\ ragPrompt = NoPrompt
    /\ ragCitations = <<>>
    /\ ragResponse = NoRagResponse
    /\ ragFailed = {}

\* The chat page (ChatPage, ChatInput): its React state and the handleSend
\* calls under way.
VARIABLES
    activeId,         \* useState: the conversation shown (Null: none)
    isStreaming,      \* useState
    streamingContent, \* useState: [send, len]: the first len tokens of that call's answer
    sendPc,           \* per handleSend call: the await it stands at
    sendConv,         \* per call: convId
    accumulatedLen,   \* per call: tokens in accumulated
    displayed         \* the call whose setIsStreaming(true) came last (Null: none)

pageVars == <<activeId, isStreaming, streamingContent, sendPc, sendConv, accumulatedLen,
              displayed>>

Sends == {"h1", "h2"}

NoContent == [send |-> Null, len |-> 0]

PageIdle ==
    /\ activeId = Null
    /\ isStreaming = FALSE
    /\ streamingContent = NoContent
    /\ sendPc = [h \in Sends |-> "idle"]
    /\ sendConv = [h \in Sends |-> Null]
    /\ accumulatedLen = [h \in Sends |-> 0]
    /\ displayed = Null

\* What the relay and its page leave alone.
outsideRelay == <<chatVars, csvVars, syncVars, ragVars, pageVars>>
\* What the /chat handler followed step by step leaves alone.
outsideChat == <<vars, csvVars, syncVars, ragVars, pageVars>>
\* What parseCsv and the row loop leave alone.
outsideCsv == <<vars, chatVars, syncVars, ragVars, pageVars>>
\* What the sync handlers leave alone.
outsideSync == <<vars, chatVars, csvVars, ragVars, pageVars>>

allVars == <<vars, chatVars, csvVars, syncVars, ragVars, pageVars>>
\* What retrieval and composition leave alone.
outsideRag == <<vars, chatVars, csvVars, syncVars, pageVars>>
\* What the chat page leaves alone.
outsidePage == <<vars, chatVars, csvVars, syncVars, ragVars>>

Init ==
    /\ variant \in {Forward, Replay}
    /\ pc = "auth"
    /\ res = 0
    /\ convId = FALSE
    /\ upState = "none"
    /\ upBody = <<>>
    /\ up = <<>>
    /\ textBuffer = <<>>
    /\ fullAnswer = <<>>
    /\ answerChunks = <<>>
    /\ tsBackpressure = FALSE
    /\ inserts = 0
    /\ messages = <<>>
    /\ sent = <<>>
    /\ closed = FALSE
    /\ cancelled = FALSE
    /\ cpc = "fetch"
    /\ rd = 0
    /\ cBuffer = <<>>
    /\ accumulated = <<>>
    /\ cDone = FALSE
    /\ outcome = "none"
    /\ ChatIdle
    /\ CsvIdle
    /\ SyncIdle
    /\ RagIdle
    /\ PageIdle

-----------------------------------------------------------------------------
(* The handler up to the completion call *)

\* Authorization header and auth.getUser(); 401 otherwise.
Authenticate ==
    /\ pc = "auth"
    /\ \E header \in BOOLEAN, user \in BOOLEAN :
        IF header /\ user
        THEN pc' = "body" /\ res' = res
        ELSE pc' = "done" /\ res' = 401
    /\ UNCHANGED <<variant, convId, upState, upBody, up, textBuffer, fullAnswer,
                   answerChunks, tsBackpressure, inserts, messages, sent, closed,
                   cancelled, client>>
    /\ UNCHANGED outsideRelay

\* const { question, conversation_id } = await req.json(); 400 without question.
Validate ==
    /\ pc = "body"
    /\ \E question \in BOOLEAN, conversation_id \in BOOLEAN :
        IF question
        THEN pc' = "llm" /\ res' = res /\ convId' = conversation_id
        ELSE pc' = "done" /\ res' = 400 /\ convId' = convId
    /\ UNCHANGED <<variant, upState, upBody, up, textBuffer, fullAnswer,
                   answerChunks, tsBackpressure, inserts, messages, sent, closed,
                   cancelled, client>>
    /\ UNCHANGED outsideRelay

\* The completion call: 429 and 402 are passed on, any other failure is
\* thrown to the handler's catch (500); a 2xx answer opens the body stream.
CallLLM ==
    /\ pc = "llm"
    /\ \E status \in {200, 429, 402, 500} :
        IF status = 200
        THEN /\ \E body \in UpstreamBodies : upBody' = body /\ up' = body
             /\ upState' = "open"
             /\ pc' = IF variant = Forward THEN "stream" ELSE "collect"
             /\ res' = res
        ELSE /\ pc' = "done"
             /\ res' = status
             /\ UNCHANGED <<upBody, up, upState>>
    /\ UNCHANGED <<variant, convId, textBuffer, fullAnswer,
                   answerChunks, tsBackpressure, inserts, messages, sent, closed,
                   cancelled, client>>
    /\ UNCHANGED outsideRelay

-----------------------------------------------------------------------------
(* Persist-after-forward *)

\* new TransformStream(): the stream starts under backpressure when its
\* readable side buffers nothing (high-water mark 0, the default of the
\* Streams standard); a runtime whose readable side buffers a chunk starts
\* without it.  Nothing reads the readable side before the Response exists.
NewTransformStream ==
    /\ variant = Forward
    /\ pc = "stream"
    /\ tsBackpressure' \in BOOLEAN
    /\ pc' = "preamble"
    /\ UNCHANGED <<variant, res, convId, upState, upBody, up, textBuffer, fullAnswer,
                   answerChunks, inserts, messages, sent, closed, cancelled, client>>
    /\ UNCHANGED outsideRelay

\* await writer.write(encoder.encode(citationsEvent)): settles once the
\* stream takes the chunk.
WritePreamble ==
    /\ pc = "preamble"
    /\ ~tsBackpressure
    /\ sent' = sent \o citationsEvent
    /\ pc' = "task"
    /\ UNCHANGED <<variant, res, convId, upState, upBody, up, textBuffer, fullAnswer,
                   answerChunks, tsBackpressure, inserts, messages, closed,
                   cancelled, client>>
    /\ UNCHANGED outsideRelay

\* The relay task starts and runs to its first await; the handler returns
\* the Response over the readable side.
ReturnResponse ==
    /\ pc = "task"
    /\ res' = 200
    /\ pc' = "loop"
    /\ UNCHANGED <<variant, convId, upState, upBody, up, textBuffer, fullAnswer,
                   answerChunks, tsBackpressure, inserts, messages, sent, closed,
                   cancelled, client>>
    /\ UNCHANGED outsideRelay

\* One turn of the outer loop: await reader.read(), then the inner loop over
\* the lines the bytes complete, each forwarded and then accumulated.  The
\* first write after the caller cancelled the stream rejects.
RelayRead ==
    /\ variant = Forward
    /\ pc = "loop"
    /\ IF up = <<>>
       THEN /\ upState' = "ended"
            /\ pc' = "flush"
            /\ UNCHANGED <<up, textBuffer, fullAnswer, sent>>
       ELSE /\ \E n \in ReadSizes(Len(up)) :
                 LET r == ForwardLines(textBuffer \o SubSeq(up, 1, n), fullAnswer) IN
                 /\ up' = SubSeq(up, n + 1, Len(up))
                 /\ textBuffer' = r.buf
                 /\ IF cancelled /\ r.out # <<>>
                    THEN pc' = "finally" /\ UNCHANGED <<sent, fullAnswer>>
                    ELSE /\ sent' = sent \o r.out
                         /\ fullAnswer' = r.answer
                         /\ pc' = pc
            /\ upState' = upState
    /\ UNCHANGED <<variant, res, convId, upBody,
                   answerChunks, tsBackpressure, inserts, messages, closed,
                   cancelled, client>>
    /\ UNCHANGED outsideRelay

\* reader.read() rejects: catch logs, finally closes.
RelayReadFail ==
    /\ variant = Forward
    /\ pc = "loop"
    /\ upState' = "failed"
    /\ pc' = "finally"
    /\ UNCHANGED <<variant, res, convId, upBody, up, textBuffer, fullAnswer,
                   answerChunks, tsBackpressure, inserts, messages, sent, closed,
                   cancelled, client>>
    /\ UNCHANGED outsideRelay

\* if (textBuffer.trim()) await writer.write(encoder.encode(textBuffer + "\n"))
RelayFlush ==
    /\ pc = "flush"
    /\ IF Trim(textBuffer) # <<>>
       THEN IF cancelled
            THEN pc' = "finally" /\ sent' = sent
            ELSE pc' = "persist" /\ sent' = sent \o textBuffer \o <<NL>>
       ELSE pc' = "persist" /\ sent' = sent
    /\ UNCHANGED <<variant, res, convId, upState, upBody, up, textBuffer, fullAnswer,
                   answerChunks, tsBackpressure, inserts, messages, closed,
                   cancelled, client>>
    /\ UNCHANGED outsideRelay

\* Persist as a relay that writes the row as the answer grows would: the
\* insert is issued as soon as there is text, every time it is reached.
PersistIncrementally ==
    /\ pc \in {"loop", "collect", "persist"}
    /\ IF convId /\ fullAnswer # <<>>
       THEN /\ inserts' = inserts + 1
            /\ messages' = Append(messages, fullAnswer)
       ELSE UNCHANGED <<inserts, messages>>
    /\ pc' = IF pc # "persist" THEN pc
             ELSE IF variant = Forward THEN "finally" ELSE "respond"
    /\ UNCHANGED <<variant, res, convId, upState, upBody, up, textBuffer, fullAnswer,
                   answerChunks, tsBackpressure, sent, closed, cancelled, client>>
    /\ UNCHANGED outsideRelay

\* if (conversation_id && user?.id && fullAnswer) await messages.insert(...).
\* The insert resolves with { error } when the store refuses it; the result
\* is not looked at.  Shared by both versions.
Persist ==
    /\ pc = "persist"
    /\ IF convId /\ fullAnswer # <<>>
       THEN /\ inserts' = inserts + 1
            /\ \E stored \in BOOLEAN :
                 messages' = IF stored THEN Append(messages, fullAnswer) ELSE messages
       ELSE UNCHANGED <<inserts, messages>>
    /\ pc' = IF variant = Forward THEN "finally" ELSE "respond"
    /\ UNCHANGED <<variant, res, convId, upState, upBody, up, textBuffer, fullAnswer,
                   answerChunks, tsBackpressure, sent, closed, cancelled, client>>
    /\ UNCHANGED outsideRelay

\* finally { await writer.close() }: the close rejects on a cancelled stream.
RelayClose ==
    /\ pc = "finally"
    /\ closed' = ~cancelled
    /\ pc' = "done"
    /\ UNCHANGED <<variant, res, convId, upState, upBody, up, textBuffer, fullAnswer,
                   answerChunks, tsBackpressure, inserts, messages, sent,
                   cancelled, client>>
    /\ UNCHANGED outsideRelay

-----------------------------------------------------------------------------
(* Persist-then-replay *)

\* One await llmReader.read() and the inner loop over the lines it completes.
CollectRead ==
    /\ variant = Replay
    /\ pc = "collect"
    /\ IF up = <<>>
       THEN /\ upState' = "ended"
            /\ pc' = "persist"
            /\ UNCHANGED <<up, textBuffer, fullAnswer>>
       ELSE /\ \E n \in ReadSizes(Len(up)) :
                 LET r == CollectLines(textBuffer \o SubSeq(up, 1, n), fullAnswer) IN
                 /\ textBuffer' = r.buf
                 /\ fullAnswer' = r.answer
                 /\ up' = SubSeq(up, n + 1, Len(up))
            /\ UNCHANGED <<upState, pc>>
    /\ UNCHANGED <<variant, res, convId, upBody,
                   answerChunks, tsBackpressure, inserts, messages, sent, closed,
                   cancelled, client>>
    /\ UNCHANGED outsideRelay

\* llmReader.read() rejects: the handler's catch answers 500.
CollectReadFail ==
    /\ variant = Replay
    /\ pc = "collect"
    /\ upState' = "failed"
    /\ res' = 500
    /\ pc' = "done"
    /\ UNCHANGED <<variant, convId, upBody, up, textBuffer, fullAnswer,
                   answerChunks, tsBackpressure, inserts, messages, sent, closed,
                   cancelled, client>>
    /\ UNCHANGED outsideRelay

\* StartReplay with the first slice enqueued ahead of the preamble.
StartReplayTokensFirst ==
    /\ pc = "respond"
    /\ LET chunks == Slices(fullAnswer, chunkSize) IN
       IF chunks = <<>>
       THEN /\ sent' = sent \o citationsEvent \o DoneRecord
            /\ closed' = TRUE
            /\ answerChunks' = <<>>
            /\ pc' = "done"
       ELSE /\ sent' = sent \o DataRecord(Head(chunks)) \o citationsEvent
            /\ closed' = closed
            /\ answerChunks' = Tail(chunks)
            /\ pc' = "replay"
    /\ res' = 200
    /\ UNCHANGED <<variant, convId, upState, upBody, up, textBuffer, fullAnswer,
                   tsBackpressure, inserts, messages, cancelled, client>>
    /\ UNCHANGED outsideRelay

\* new ReadableStream({ start }) runs start to its first await: the preamble
\* and the first slice are enqueued (or, with no slice, [DONE] and the
\* close); then the Response is returned.
StartReplay ==
    /\ pc = "respond"
    /\ LET chunks == Slices(fullAnswer, chunkSize) IN
       IF chunks = <<>>
       THEN /\ sent' = sent \o citationsEvent \o DoneRecord
            /\ closed' = TRUE
            /\ answerChunks' = <<>>
            /\ pc' = "done"
       ELSE /\ sent' = sent \o citationsEvent \o DataRecord(Head(chunks))
            /\ closed' = closed
            /\ answerChunks' = Tail(chunks)
            /\ pc' = "replay"
    /\ res' = 200
    /\ UNCHANGED <<variant, convId, upState, upBody, up, textBuffer, fullAnswer,
                   tsBackpressure, inserts, messages, cancelled, client>>
    /\ UNCHANGED outsideRelay

\* After the 8 ms timer: the next slice, or [DONE] and the close.  Enqueueing
\* on a cancelled stream throws, which ends start().
ReplayStep ==
    /\ pc = "replay"
    /\ IF cancelled
       THEN pc' = "done" /\ UNCHANGED <<sent, closed, answerChunks>>
       ELSE IF answerChunks = <<>>
       THEN /\ sent' = sent \o DoneRecord
            /\ closed' = TRUE
            /\ pc' = "done"
            /\ answerChunks' = answerChunks
       ELSE /\ sent' = sent \o DataRecord(Head(answerChunks))
            /\ answerChunks' = Tail(answerChunks)
            /\ UNCHANGED <<closed, pc>>
    /\ UNCHANGED <<variant, res, convId, upState, upBody, up, textBuffer, fullAnswer,
                   tsBackpressure, inserts, messages, cancelled, client>>
    /\ UNCHANGED outsideRelay

-----------------------------------------------------------------------------
(* The page: handleSend from its fetch on *)

\* await fetch(CHAT_URL, ...) resolves with the handler's Response;
\* if (!resp.ok) throws into the catch (toast).
ClientResponse ==
    /\ cpc = "fetch"
    /\ res # 0
    /\ IF res = 200
       THEN cpc' = "read" /\ outcome' = outcome
       ELSE cpc' = "done" /\ outcome' = "failure"
    /\ UNCHANGED <<server, cancelled, rd, cBuffer, accumulated, cDone>>
    /\ UNCHANGED outsideRelay

\* One await reader.read() that yields bytes, and the inner loop over the
\* lines they complete.  On [DONE] the outer loop ends: flush, then
\* refreshMessages.
ClientRead ==
    /\ cpc = "read"
    /\ rd < Len(sent)
    /\ \E n \in ReadSizes(Len(sent) - rd) :
        LET r == ClientLines(cBuffer \o SubSeq(sent, rd + 1, rd + n), accumulated) IN
        /\ rd' = rd + n
        /\ cBuffer' = r.buf
        /\ cDone' = r.done
        /\ IF r.done
           THEN /\ accumulated' = ClientFlush(r.buf, r.acc)
                /\ outcome' = "success"
                /\ cpc' = "done"
           ELSE /\ accumulated' = r.acc
                /\ UNCHANGED <<outcome, cpc>>
    /\ UNCHANGED <<server, cancelled>>
    /\ UNCHANGED outsideRelay

\* reader.read() reports done (the stream was closed and is drained): break,
\* flush, then refreshMessages.
ClientEnd ==
    /\ cpc = "read"
    /\ rd = Len(sent)
    /\ closed
    /\ accumulated' = ClientFlush(cBuffer, accumulated)
    /\ outcome' = "success"
    /\ cpc' = "done"
    /\ UNCHANGED <<server, cancelled, rd, cBuffer, cDone>>
    /\ UNCHANGED outsideRelay

\* The caller goes away (tab closed, request aborted): the response stream is
\* cancelled and the page's reader state is gone with it.
ClientDisconnect ==
    /\ cpc \in {"fetch", "read"}
    /\ cancelled' = TRUE
    /\ cpc' = "gone"
    /\ rd' = 0
    /\ cBuffer' = <<>>
    /\ accumulated' = <<>>
    /\ UNCHANGED <<server, cDone, outcome>>
    /\ UNCHANGED outsideRelay

-----------------------------------------------------------------------------

Next ==
    \/ Authenticate
    \/ Validate
    \/ CallLLM
    \/ NewTransformStream
    \/ WritePreamble
    \/ ReturnResponse
    \/ RelayRead
    \/ RelayReadFail
    \/ RelayFlush
    \/ Persist
    \/ RelayClose
    \/ CollectRead
    \/ CollectReadFail
    \/ StartReplay
    \/ ReplayStep
    \/ ClientResponse
    \/ ClientRead
    \/ ClientEnd
    \/ ClientDisconnect

Spec == Init /\ [][Next]_vars

-----------------------------------------------------------------------------
(* Reading a byte stream as the protocol defines it, for the properties *)

RECURSIVE Concat(_)
Concat(ss) == IF ss = <<>> THEN <<>> ELSE Head(ss) \o Concat(Tail(ss))

RECURSIVE FragmentsOfLines(_)
FragmentsOfLines(lines) ==
    IF lines = <<>> THEN <<>>
    ELSE LET line == StripCR(Head(lines)) IN
         (IF Len(line) = 2 /\ line[1].k = "data" /\ line[2].k = "json" /\ line[2].c # <<>>
          THEN <<line[2].c>> ELSE <<>>) \o FragmentsOfLines(Tail(lines))

\* The content fragments a stream carries, one per `data: {...}` line, the
\* last line counted whether or not a line end follows it.
Fragments(stream) == FragmentsOfLines(SplitNL(stream))

\* The fragments of the lines that are followed by a line end.
TerminatedFragments(stream) ==
    LET lines == SplitNL(stream) IN FragmentsOfLines(SubSeq(lines, 1, Len(lines) - 1))

EndsWith(s, t) == Len(s) >= Len(t) /\ SubSeq(s, Len(s) - Len(t) + 1, Len(s)) = t

IsPrefix(s, t) == Len(s) <= Len(t) /\ SubSeq(t, 1, Len(s)) = s

\* The handler and every task it started have finished.
Finished == pc = "done"

-----------------------------------------------------------------------------
(* C1..C10: the streaming relay and its consumer *)

\* C1: an invocation that passed authentication and validation and got a 2xx
\* completion stream ends with exactly one assistant row, whatever the reads
\* were.  (Stated for the invocations in which a row is due beyond doubt: the
\* request names its conversation, the stream carries answer text on
\* complete lines and is not cut by an error, and the store refuses nothing.)
C1_ExactlyOneRow ==
    (/\ Finished
     /\ upState \in {"open", "ended"}
     /\ convId
     /\ TerminatedFragments(upBody) # <<>>
     /\ Len(messages) = inserts)
    => Len(messages) = 1

\* C2: at most one insert is issued and at most one row exists; the insert
\* comes after the upstream stream reported its end, and the row holds the
\* whole text accumulated from the upstream lines, not a prefix of it.
C2_AtMostOnceAfterEnd ==
    /\ inserts <= 1
    /\ Len(messages) <= inserts
    /\ inserts > 0 => (upState = "ended" /\ up = <<>>)
    /\ \A i \in 1..Len(messages) :
         /\ messages[i] = fullAnswer
         /\ messages[i] = Concat(TerminatedFragments(upBody))

C2_Witness ==
    /\ Len(messages) = 1
    /\ Len(fullAnswer) > chunkSize
    /\ cancelled

\* C3: when handleSend has read the relay's stream to its end, the text it
\* accumulated equals the relay's fullAnswer.
C3_RoundTrip ==
    (Finished /\ outcome = "success") => accumulated = fullAnswer

\* C4: the row's content is the concatenation, in order, of the content
\* fragments the relay wrote to the response stream.
C4_PersistedIsForwarded ==
    (Finished /\ closed /\ Len(messages) = 1)
    => messages[1] = Concat(Fragments(sent))

\* C5: once the relay has read the upstream stream to its end and closed the
\* response, the fragments it wrote are the upstream fragments in order
\* (persist-after-forward), or slices whose concatenation is the upstream
\* answer (persist-then-replay).
C5_NoFragmentLost ==
    (Finished /\ closed /\ upState = "ended")
    => IF variant = Forward
       THEN Fragments(sent) = Fragments(upBody)
       ELSE Concat(Fragments(sent)) = Concat(Fragments(upBody))

\* C6: an SSE response starts with the citations preamble, and the preamble
\* occurs once.
C6_PreambleFirstOnce ==
    /\ res = 200 => sent # <<>>
    /\ sent # <<>> => IsPrefix(<<Event, NL, Data, Cit, NL, NL>>, sent)
    /\ Cardinality({ i \in 1..Len(sent) : sent[i].k \in {"event", "cit"} }) <= 2

C6_Witness ==
    /\ res = 200
    /\ Len(Fragments(sent)) >= 2

\* C7: a response stream the relay closed ends with `data: [DONE]` and a
\* blank line.  (Stated for the streams closed after the upstream stream was
\* read to its end and gave answer text.)
C7_EndsWithDone ==
    (closed /\ upState = "ended" /\ fullAnswer # <<>>)
    => EndsWith(sent, <<Data, Done, NL, NL>>)

\* C8: persist-then-replay: once the caller has been handed a byte of the
\* response to a request that names its conversation and got a non-empty
\* answer, the assistant row is in the store.
C8_StoredBeforeBytes ==
    (variant = Replay /\ rd > 0 /\ convId /\ fullAnswer # <<>>)
    => Len(messages) = 1

\* C9: a caller that went away does not make the relay skip the insert: a
\* finished relay that read an answer for a request naming its conversation
\* has issued it.
C9_DisconnectKeepsPersist ==
    (Finished /\ cancelled /\ upState \in {"open", "ended"} /\ convId /\ fullAnswer # <<>>)
    => inserts = 1

\* C10: handleSend ends in refreshMessages only if it saw `data: [DONE]`.
C10_NoDoneIsFailure ==
    (res = 200 /\ outcome = "success") => cDone

-----------------------------------------------------------------------------
(* The /chat handler up to its answer: src/supabase/functions/chat/index.ts *)
(* (non-streaming) and both versions of src/unnamed/part_008.  The three    *)
(* share the code up to the completion call and differ in how they map its  *)
(* status and in what they do with the answer.                              *)

\* No relay is being followed step by step.
RelayIdle ==
    /\ variant = Forward
    /\ pc = "idle"
    /\ res = 0
    /\ convId = FALSE
    /\ upState = "none"
    /\ upBody = <<>>
    /\ up = <<>>
    /\ textBuffer = <<>>
    /\ fullAnswer = <<>>
    /\ answerChunks = <<>>
    /\ tsBackpressure = FALSE
    /\ inserts = 0
    /\ messages = <<>>
    /\ sent = <<>>
    /\ closed = FALSE
    /\ cancelled = FALSE
    /\ cpc = "idle"
    /\ rd = 0
    /\ cBuffer = <<>>
    /\ accumulated = <<>>
    /\ cDone = FALSE
    /\ outcome = "none"

Unauthorized == "Unauthorized"
QuestionRequired == "question is required"
RateLimitExceeded == "Rate limit exceeded. Please try again in a moment."
UsageLimitReached == "AI usage limit reached. Please add credits."
LLMError == "LLM error (status): body"
QueryError == "error.message"

\* question: absent; with no word that survives the keyword filter; or with
\* at least one keyword.
Questions == {"none", "stopwords", "keywords"}

Requests ==
    [authHeader : BOOLEAN, user : BOOLEAN, question : Questions, conversation_id : BOOLEAN]

ChatInit ==
    /\ handler \in {NonStreaming, Forward, Replay}
    /\ hpc = "header"
    /\ request \in Requests
    /\ response = NoResponse
    /\ storeQueries = 0
    /\ llmCalls = 0
    /\ llmStatus = 0
    /\ messageWrites = 0
    /\ sse = FALSE
    /\ RelayIdle
    /\ CsvIdle
    /\ SyncIdle
    /\ RagIdle
    /\ PageIdle

\* if (!authHeader) return 401.
ChatAuthHeader ==
    /\ hpc = "header"
    /\ IF request.authHeader
       THEN hpc' = "user" /\ response' = response
       ELSE hpc' = "done" /\ response' = [status |-> 401, error |-> Unauthorized]
    /\ UNCHANGED <<handler, request, storeQueries, llmCalls, llmStatus, messageWrites, sse>>
    /\ UNCHANGED outsideChat

\* await userClient.auth.getUser(); if (authErr || !user) return 401.
ChatGetUser ==
    /\ hpc = "user"
    /\ IF request.user
       THEN hpc' = "body" /\ response' = response
       ELSE hpc' = "done" /\ response' = [status |-> 401, error |-> Unauthorized]
    /\ UNCHANGED <<handler, request, storeQueries, llmCalls, llmStatus, messageWrites, sse>>
    /\ UNCHANGED outsideChat

\* A handler that looks at the question only after retrieval.
ChatBodyAfterRetrieval ==
    /\ hpc = "body"
    /\ IF request.question = "none"
       THEN /\ storeQueries' = storeQueries + 1
            /\ hpc' = "done"
            /\ response' = [status |-> 400, error |-> QuestionRequired]
       ELSE /\ hpc' = IF request.question = "keywords" THEN "keywordQuery" ELSE "fallbackQuery"
            /\ UNCHANGED <<response, storeQueries>>
    /\ UNCHANGED <<handler, request, llmCalls, llmStatus, messageWrites, sse>>
    /\ UNCHANGED outsideChat

\* await req.json(); if (!question) return 400; the keywords are extracted
\* and, if (keywords.length > 0), the filtered query comes next.
ChatBody ==
    /\ hpc = "body"
    /\ IF request.question = "none"
       THEN /\ hpc' = "done"
            /\ response' = [status |-> 400, error |-> QuestionRequired]
       ELSE /\ hpc' = IF request.question = "keywords" THEN "keywordQuery" ELSE "fallbackQuery"
            /\ response' = response
    /\ UNCHANGED <<handler, request, storeQueries, llmCalls, llmStatus, messageWrites, sse>>
    /\ UNCHANGED outsideChat

\* The keyword-filtered query; if (error) throw, caught by the handler's
\* catch (500).  With no candidate the fallback query comes next.
ChatKeywordQuery ==
    /\ hpc = "keywordQuery"
    /\ storeQueries' = storeQueries + 1
    /\ \E result \in {"error", "empty", "rows"} :
        CASE result = "error" ->
                hpc' = "done" /\ response' = [status |-> 500, error |-> QueryError]
          [] result = "empty" ->
                hpc' = "fallbackQuery" /\ response' = response
          [] result = "rows" ->
                hpc' = "llm" /\ response' = response
    /\ UNCHANGED <<handler, request, llmCalls, llmStatus, messageWrites, sse>>
    /\ UNCHANGED outsideChat

\* if (chunks.length === 0): the first-6 query; chunks = data ?? [].
ChatFallbackQuery ==
    /\ hpc = "fallbackQuery"
    /\ storeQueries' = storeQueries + 1
    /\ hpc' = "llm"
    /\ UNCHANGED <<handler, request, response, llmCalls, llmStatus, messageWrites, sse>>
    /\ UNCHANGED outsideChat

\* The completion call and the mapping of a status that is not 2xx.  The
\* streaming handlers return 429 and 402 as they are; the non-streaming
\* handler throws all three into its catch, which answers 500.
ChatCallLLM ==
    /\ hpc = "llm"
    /\ llmCalls' = llmCalls + 1
    /\ \E status \in {200, 429, 402, 503} :
        /\ llmStatus' = status
        /\ IF status = 200
           THEN hpc' = "answer" /\ response' = response
           ELSE /\ hpc' = "done"
                /\ response' =
                     [status |-> IF handler # NonStreaming /\ status \in {429, 402}
                                 THEN status ELSE 500,
                      error |-> CASE status = 429 -> RateLimitExceeded
                                  [] status = 402 -> UsageLimitReached
                                  [] OTHER -> LLMError]
    /\ UNCHANGED <<handler, request, storeQueries, messageWrites, sse>>
    /\ UNCHANGED outsideChat

\* The answer: a JSON body (non-streaming, nothing is written), or the SSE
\* relay with its one insert when conversation_id is present and the answer
\* is not empty.
ChatAnswer ==
    /\ hpc = "answer"
    /\ hpc' = "done"
    /\ response' = [status |-> 200, error |-> ""]
    /\ sse' = (handler # NonStreaming)
    /\ \E fullAnswerEmpty \in BOOLEAN :
        messageWrites' = IF handler # NonStreaming /\ request.conversation_id
                            /\ ~fullAnswerEmpty
                         THEN messageWrites + 1 ELSE messageWrites
    /\ UNCHANGED <<handler, request, storeQueries, llmCalls, llmStatus>>
    /\ UNCHANGED outsideChat

ChatNext ==
    \/ ChatAuthHeader
    \/ ChatGetUser
    \/ ChatBody
    \/ ChatKeywordQuery
    \/ ChatFallbackQuery
    \/ ChatCallLLM
    \/ ChatAnswer

ChatSpec == ChatInit /\ [][ChatNext]_allVars

\* C11: when the completion service answers 429, the response has status 429
\* and exactly the rate-limit text, no SSE body is started and no message is
\* inserted.
C11_RateLimit429 ==
    (hpc = "done" /\ llmStatus = 429) =>
        /\ response = [status |-> 429, error |-> RateLimitExceeded]
        /\ ~sse
        /\ messageWrites = 0

\* C12: an invocation rejected with 401 or 400 has issued no rag_chunks query,
\* no completion call and no messages insert, and issues none afterwards.
C12_RejectedBeforeAnyCost ==
    response.status \in {400, 401} =>
        storeQueries = 0 /\ llmCalls = 0 /\ messageWrites = 0 /\ hpc = "done"

C12_Witness ==
    response.status = 400 /\ request.question = "none" /\ request.conversation_id

-----------------------------------------------------------------------------
(* sync-doc (CSV): parseCsv and the row loop, as functions of body.csv.     *)
(* Text is a sequence of characters.                                        *)

\* Largest number of data lines in the table.
MaxDataLines == 2

Quote == "\""

\* String.prototype.trim(): white space at both ends.
IsWhite(ch) == ch \in {" ", "\n", "\r", "\t"}

RECURSIVE TrimLeft(_)
TrimLeft(str) ==
    IF str # <<>> /\ IsWhite(Head(str)) THEN TrimLeft(Tail(str)) ELSE str

RECURSIVE TrimRight(_)
TrimRight(str) ==
    IF str # <<>> /\ IsWhite(str[Len(str)])
    THEN TrimRight(SubSeq(str, 1, Len(str) - 1)) ELSE str

TrimText(str) == TrimRight(TrimLeft(str))

\* text.replace(/\r\n/g, "\n").replace(/\r/g, "\n")
NormalizeEOL(text) ==
    LET kept == SelectSeq([i \in 1..Len(text) |-> i],
                          LAMBDA i : ~(text[i] = "\r" /\ i < Len(text) /\ text[i + 1] = "\n"))
    IN  [n \in 1..Len(kept) |-> IF text[kept[n]] = "\r" THEN "\n" ELSE text[kept[n]]]

\* .split("\n")
RECURSIVE SplitLines(_)
SplitLines(text) ==
    IF \E i \in 1..Len(text) : text[i] = "\n"
    THEN LET i == CHOOSE i \in 1..Len(text) :
                    text[i] = "\n" /\ \A j \in 1..(i - 1) : text[j] # "\n" IN
         <<SubSeq(text, 1, i - 1)>> \o SplitLines(SubSeq(text, i + 1, Len(text)))
    ELSE <<text>>

\* The character loop of parseCsv over one line, from index i on.
RECURSIVE ScanLine(_, _, _, _, _)
ScanLine(line, i, cur, inQ, cells) ==
    IF i > Len(line) THEN Append(cells, cur)
    ELSE LET ch == line[i] IN
         IF ch = Quote
         THEN IF inQ /\ i < Len(line) /\ line[i + 1] = Quote
              THEN ScanLine(line, i + 2, Append(cur, Quote), inQ, cells)
              ELSE ScanLine(line, i + 1, cur, ~inQ, cells)
         ELSE IF ch = "," /\ ~inQ
              THEN ScanLine(line, i + 1, <<>>, inQ, Append(cells, cur))
              ELSE ScanLine(line, i + 1, Append(cur, ch), inQ, cells)

\* c.trim().replace(/^"|"$/g, "")
CleanCell(c) ==
    LET t == TrimText(c)
        u == IF t # <<>> /\ Head(t) = Quote THEN Tail(t) ELSE t
    IN  IF u # <<>> /\ u[Len(u)] = Quote THEN SubSeq(u, 1, Len(u) - 1) ELSE u

RECURSIVE ParseLines(_)
ParseLines(lines) ==
    IF lines = <<>> THEN <<>>
    ELSE LET line == Head(lines) IN
         IF TrimText(line) = <<>> THEN ParseLines(Tail(lines))
         ELSE LET cells == ScanLine(line, 1, <<>>, FALSE, <<>>) IN
              <<[ci \in 1..Len(cells) |-> CleanCell(cells[ci])]>> \o ParseLines(Tail(lines))

parseCsv(text) == ParseLines(SplitLines(NormalizeEOL(text)))

EndsWithColonSpace(pair) ==
    Len(pair) >= 2 /\ pair[Len(pair) - 1] = ":" /\ pair[Len(pair)] = " "

RECURSIVE JoinWith(_, _)
JoinWith(strs, sep) ==
    IF strs = <<>> THEN <<>>
    ELSE IF Len(strs) = 1 THEN strs[1]
    ELSE strs[1] \o sep \o JoinWith(Tail(strs), sep)

\* headers.map((h, ci) => `${h}: ${row[ci] ?? ""}`)
\*        .filter((pair) => !pair.endsWith(": ")).join("; ")
RowText(headers, row) ==
    LET pairs == [ci \in 1..Len(headers) |->
                    headers[ci] \o <<":", " ">> \o (IF ci <= Len(row) THEN row[ci] ELSE <<>>)]
    IN  JoinWith(SelectSeq(pairs, LAMBDA pair : ~EndsWithColonSpace(pair)), <<";", " ">>)

\* The row loop: the objects pushed to batch for dataRows[i..], i zero-based.
RECURSIVE RowLoop(_, _, _)
RowLoop(headers, dataRows, i) ==
    IF i >= Len(dataRows) THEN <<>>
    ELSE LET row == dataRows[i + 1]
             text == RowText(headers, row) IN
         IF \A ci \in 1..Len(row) : row[ci] = <<>> THEN RowLoop(headers, dataRows, i + 1)
         ELSE IF TrimText(text) = <<>> THEN RowLoop(headers, dataRows, i + 1)
         ELSE <<[chunk_index |-> i, content |-> text, row_number |-> i + 2]>>
              \o RowLoop(headers, dataRows, i + 1)

\* Cells as they are written in the file: empty; padded; quoted, with a
\* comma inside; quoted, ending in an escaped quote.
RawCells ==
    { <<>>,
      <<" ", "a", " ">>,
      <<Quote, "b", ",", "c", Quote>>,
      <<Quote, "x", ":", " ", Quote, Quote, Quote>> }

\* Lines of one or two cells.
RawLines == [1..1 -> RawCells] \cup [1..2 -> RawCells]

HeaderLines == { << <<"h">> >>, << <<"h">>, <<"k">> >> }

Sources ==
    [header : HeaderLines,
     data : UNION { [1..n -> RawLines] : n \in 0..MaxDataLines },
     eol : {"lf", "crlf"}]

\* The file: the lines, their cells joined by commas, each line but the last
\* followed by the line end.
CsvText(src) ==
    LET eol == IF src.eol = "crlf" THEN <<"\r", "\n">> ELSE <<"\n">>
        all == <<src.header>> \o src.data
    IN  JoinWith([l \in 1..Len(all) |-> JoinWith(all[l], <<",">>)], eol)

CsvInit ==
    /\ csvSource \in Sources
    /\ csvRows = <<>>
    /\ csvChunks = <<>>
    /\ csvPc = "parse"
    /\ RelayIdle
    /\ ChatIdle
    /\ SyncIdle
    /\ RagIdle
    /\ PageIdle

\* const rows = parseCsv(csv)
CsvParse ==
    /\ csvPc = "parse"
    /\ csvRows' = parseCsv(CsvText(csvSource))
    /\ csvPc' = "loop"
    /\ UNCHANGED <<csvSource, csvChunks>>
    /\ UNCHANGED outsideCsv

\* headers = rows[0]; dataRows = rows.slice(1); the loop over dataRows.
CsvRowLoop ==
    /\ csvPc = "loop"
    /\ Len(csvRows) >= 2
    /\ csvChunks' = RowLoop(csvRows[1], Tail(csvRows), 0)
    /\ csvPc' = "done"
    /\ UNCHANGED <<csvSource, csvRows>>
    /\ UNCHANGED outsideCsv

\* if (rows.length < 2) throw
CsvTooSmall ==
    /\ csvPc = "loop"
    /\ Len(csvRows) < 2
    /\ csvPc' = "thrown"
    /\ UNCHANGED <<csvSource, csvRows, csvChunks>>
    /\ UNCHANGED outsideCsv

CsvNext == CsvParse \/ CsvRowLoop \/ CsvTooSmall

CsvSpec == CsvInit /\ [][CsvNext]_allVars

\* The data lines of the source that have a cell that is not empty, by their
\* zero-based place among the data lines.
NonEmptyDataLines(src) ==
    { j \in 0..(Len(src.data) - 1) : \E ci \in 1..Len(src.data[j + 1]) : src.data[j + 1][ci] # <<>> }

\* C14: one chunk per data line that has a non-empty cell, none for the
\* others, and a chunk's row_number is the zero-based place of its line among
\* the data lines of the source plus 2.
C14_OneChunkPerRow ==
    (csvPc = "done" /\ NonEmptyDataLines(csvSource) # {}) =>
        /\ Len(csvChunks) = Cardinality(NonEmptyDataLines(csvSource))
        /\ { csvChunks[n].row_number : n \in 1..Len(csvChunks) }
             = { j + 2 : j \in NonEmptyDataLines(csvSource) }

\* The pairs `Header: Value` of the columns of a row whose value is not empty.
ExpectedPairs(headers, row) ==
    LET cols == SelectSeq([ci \in 1..Len(headers) |-> ci],
                          LAMBDA ci : ci <= Len(row) /\ row[ci] # <<>>)
    IN  [n \in 1..Len(cols) |-> headers[cols[n]] \o <<":", " ">> \o row[cols[n]]]

\* C15: the content of the chunk of a data row is the pairs `Header: Value`
\* of exactly the columns whose value is not empty, in column order, joined
\* by "; ".
C15_ContentIsPairs ==
    csvPc = "done" =>
        \A n \in 1..Len(csvChunks) :
            csvChunks[n].content =
                JoinWith(ExpectedPairs(csvRows[1], csvRows[csvChunks[n].chunk_index + 2]),
                         <<";", " ">>)

-----------------------------------------------------------------------------
(* Sync: the sync-doc handler (CSV, src/supabase/functions/chat/index.ts    *)
(* lines 189-318) and the sync handler (embedding, src/unnamed/part_009).   *)
(* One of them is deployed; two invocations of it run, in any interleaving  *)
(* of their awaits.  A handler step is what runs between two awaits,        *)
(* together with the effect of the storage call it ends with.  A storage    *)
(* call fails only where the handler reads its error: the inserts into      *)
(* rag_chunks and the embed call.                                           *)

\* Largest number of chunks chunkText returns.
MaxTextChunks == 2

BatchSize == 50

SyncForbidden == "Forbidden"
CsvRequired == "csv is required"
ContentRequired == "content is required"
TooFewRows == "CSV must have at least a header row and one data row."
InsertError == "insert: error.message"
EmbeddingFailed == "Embedding failed: err"
KnowledgeBase == "Knowledge Base"

SourceLabels == {"csv", "prices.csv"}

\* Uploaded tables: nothing; a header alone; one data line; a data line, a
\* line of empty cells and a data line; more data lines than one batch holds.
SyncTables ==
    { [header |-> << <<>> >>, data |-> <<>>, eol |-> "lf"],
      [header |-> << <<"h">> >>, data |-> <<>>, eol |-> "lf"],
      [header |-> << <<"h">> >>, data |-> << << <<"a">> >> >>, eol |-> "lf"],
      [header |-> << <<"h">>, <<"k">> >>,
       data |-> << << <<"a">>, <<"b">> >>, << <<>>, <<>> >>, << <<"c">> >> >>, eol |-> "crlf"],
      [header |-> << <<"h">> >>, data |-> [l \in 1..(BatchSize + 1) |-> << <<"a">> >>],
       eol |-> "lf"] }

\* What the handler makes of each table: csv, rows.length, and the
\* chunk_index of every object the row loop pushes, in order.
SyncInputs ==
    { LET csv == CsvText(table)
          rows == parseCsv(csv)
          pushed == IF Len(rows) >= 2 THEN RowLoop(rows[1], Tail(rows), 0) ELSE <<>>
      IN  [blank |-> TrimText(csv) = <<>>,
           rowCount |-> Len(rows),
           pushed |-> [n \in 1..Len(pushed) |-> pushed[n].chunk_index]]
      : table \in SyncTables }

\* update({ status, error_message }).eq("id", id)
SetStatus(rows, id, status, error_message) ==
    { IF r.id = id THEN [r EXCEPT !.status = status, !.error_message = error_message]
      ELSE r : r \in rows }

\* update({ status: "done", chunk_count, doc_title, error_message: null }).eq("id", id)
SetDone(rows, id, chunk_count, doc_title) ==
    { IF r.id = id
      THEN [r EXCEPT !.status = "done", !.chunk_count = chunk_count,
                     !.doc_title = doc_title, !.error_message = Null]
      ELSE r : r \in rows }

SyncInit ==
    /\ syncVariant \in {"csv", "embedding"}
    /\ sync_status \in {{}, {SeedRow}}
    /\ rag_chunks = {}
    /\ spc = [p \in Syncs |-> "start"]
    /\ sourceLabel = [p \in Syncs |-> Null]
    /\ rowCount = [p \in Syncs |-> 0]
    /\ todo = [p \in Syncs |-> <<>>]
    /\ indexed = [p \in Syncs |-> 0]
    /\ statusId = [p \in Syncs |-> Null]
    /\ msg = [p \in Syncs |-> Null]
    /\ sresponse = [p \in Syncs |-> NoSyncResponse]
    /\ statusWrite = [p \in Syncs |-> NoWrite]
    /\ wrote = [p \in Syncs |-> FALSE]
    /\ finishedBefore = [p \in Syncs |-> {}]
    /\ RelayIdle
    /\ ChatIdle
    /\ CsvIdle
    /\ RagIdle
    /\ PageIdle

\* Authorization header and auth.getUser(); 401 otherwise.
SyncAuthenticate(p) ==
    /\ spc[p] = "start"
    /\ finishedBefore' = [finishedBefore EXCEPT ![p] = {q \in Syncs : spc[q] = "done"}]
    /\ \E authHeader \in BOOLEAN, user \in BOOLEAN :
        IF authHeader /\ user
        THEN spc' = [spc EXCEPT ![p] = "role"] /\ sresponse' = sresponse
        ELSE /\ spc' = [spc EXCEPT ![p] = "done"]
             /\ sresponse' = [sresponse EXCEPT ![p] =
                                [status |-> 401, error |-> Unauthorized, chunk_count |-> 0]]
    /\ UNCHANGED <<syncVariant, sync_status, rag_chunks, sourceLabel, rowCount, todo,
                   indexed, statusId, msg, statusWrite, wrote>>
    /\ UNCHANGED outsideSync

\* A handler that marks the status row before it looks at the role.
SyncVerifyAdminAfterMarking(p) ==
    /\ spc[p] = "role"
    /\ \E roleData \in BOOLEAN :
        IF roleData
        THEN /\ spc' = [spc EXCEPT ![p] = "body"]
             /\ UNCHANGED <<sresponse, sync_status, wrote>>
        ELSE /\ spc' = [spc EXCEPT ![p] = "done"]
             /\ sync_status' = { [r EXCEPT !.status = "syncing"] : r \in sync_status }
             /\ wrote' = [wrote EXCEPT ![p] = TRUE]
             /\ sresponse' = [sresponse EXCEPT ![p] =
                                [status |-> 403, error |-> SyncForbidden, chunk_count |-> 0]]
    /\ UNCHANGED <<syncVariant, rag_chunks, sourceLabel, rowCount, todo,
                   indexed, statusId, msg, statusWrite, finishedBefore>>
    /\ UNCHANGED outsideSync

\* user_roles ... .eq("role", "admin").maybeSingle(); if (!roleData) return 403.
SyncVerifyAdmin(p) ==
    /\ spc[p] = "role"
    /\ \E roleData \in BOOLEAN :
        IF roleData
        THEN spc' = [spc EXCEPT ![p] = "body"] /\ sresponse' = sresponse
        ELSE /\ spc' = [spc EXCEPT ![p] = "done"]
             /\ sresponse' = [sresponse EXCEPT ![p] =
                                [status |-> 403, error |-> SyncForbidden, chunk_count |-> 0]]
    /\ UNCHANGED <<syncVariant, sync_status, rag_chunks, sourceLabel, rowCount, todo,
                   indexed, statusId, msg, statusWrite, wrote, finishedBefore>>
    /\ UNCHANGED outsideSync

\* await req.json() and the check of what it holds; 400 otherwise.  CSV: the
\* rows parseCsv will return and the chunk_index of every object the row
\* loop will push are functions of csv alone and are worked out here.
\* Embedding: chunks = chunkText(content), any number of chunks.
SyncBody(p) ==
    /\ spc[p] = "body"
    /\ \E label \in SourceLabels :
        IF syncVariant = "csv"
        THEN \E input \in SyncInputs :
                IF input.blank
                THEN /\ spc' = [spc EXCEPT ![p] = "done"]
                     /\ sresponse' = [sresponse EXCEPT ![p] =
                            [status |-> 400, error |-> CsvRequired, chunk_count |-> 0]]
                     /\ UNCHANGED <<sourceLabel, rowCount, todo>>
                ELSE /\ spc' = [spc EXCEPT ![p] = "select"]
                     /\ sourceLabel' = [sourceLabel EXCEPT ![p] = label]
                     /\ rowCount' = [rowCount EXCEPT ![p] = input.rowCount]
                     /\ todo' = [todo EXCEPT ![p] = input.pushed]
                     /\ sresponse' = sresponse
        ELSE \E content \in BOOLEAN, n \in 0..MaxTextChunks :
                IF ~content
                THEN /\ spc' = [spc EXCEPT ![p] = "done"]
                     /\ sresponse' = [sresponse EXCEPT ![p] =
                            [status |-> 400, error |-> ContentRequired, chunk_count |-> 0]]
                     /\ UNCHANGED <<sourceLabel, rowCount, todo>>
                ELSE /\ spc' = [spc EXCEPT ![p] = "select"]
                     /\ sourceLabel' = [sourceLabel EXCEPT ![p] = label]
                     /\ todo' = [todo EXCEPT ![p] = [i \in 1..n |-> i - 1]]
                     /\ UNCHANGED <<rowCount, sresponse>>
    /\ UNCHANGED <<syncVariant, sync_status, rag_chunks, indexed, statusId, msg,
                   statusWrite, wrote, finishedBefore>>
    /\ UNCHANGED outsideSync

\* from("sync_status").select("id").maybeSingle(): the row if there is
\* exactly one; null if there is none, and null (with an error nobody reads)
\* if there are several.
SyncSelectStatus(p) ==
    /\ spc[p] = "select"
    /\ statusId' = [statusId EXCEPT ![p] =
                      IF Cardinality(sync_status) = 1
                      THEN (CHOOSE r \in sync_status : TRUE).id ELSE Null]
    /\ spc' = [spc EXCEPT ![p] = "ensure"]
    /\ UNCHANGED <<syncVariant, sync_status, rag_chunks, sourceLabel, rowCount, todo,
                   indexed, msg, sresponse, statusWrite, wrote, finishedBefore>>
    /\ UNCHANGED outsideSync

\* if (existingStatus) update it to syncing; else insert a row and take its id.
SyncEnsureStatus(p) ==
    /\ spc[p] = "ensure"
    /\ IF statusId[p] # Null
       THEN /\ sync_status' = SetStatus(sync_status, statusId[p], "syncing", Null)
            /\ statusId' = statusId
       ELSE /\ sync_status' = sync_status \cup
                    {[id |-> p, status |-> "syncing", chunk_count |-> 0,
                      doc_title |-> Null, error_message |-> Null]}
            /\ statusId' = [statusId EXCEPT ![p] = p]
    /\ statusWrite' = [statusWrite EXCEPT ![p] = [status |-> "syncing", error_message |-> Null]]
    /\ wrote' = [wrote EXCEPT ![p] = TRUE]
    /\ spc' = [spc EXCEPT ![p] = "try"]
    /\ UNCHANGED <<syncVariant, rag_chunks, sourceLabel, rowCount, todo, indexed, msg,
                   sresponse, finishedBefore>>
    /\ UNCHANGED outsideSync

\* A handler that inserts the new chunks without deleting the old ones.
SyncTryWithoutDelete(p) ==
    /\ spc[p] = "try"
    /\ IF syncVariant = "csv" /\ rowCount[p] < 2
       THEN /\ msg' = [msg EXCEPT ![p] = TooFewRows]
            /\ spc' = [spc EXCEPT ![p] = "catch"]
            /\ UNCHANGED indexed
       ELSE /\ indexed' = [indexed EXCEPT ![p] =
                              IF syncVariant = "csv" THEN 0 ELSE Len(todo[p])]
            /\ spc' = [spc EXCEPT ![p] = "loop"]
            /\ UNCHANGED msg
    /\ UNCHANGED <<syncVariant, sync_status, rag_chunks, sourceLabel, rowCount, todo, statusId,
                   sresponse, statusWrite, wrote, finishedBefore>>
    /\ UNCHANGED outsideSync

\* try: (CSV) if (rows.length < 2) throw; then delete the chunks of DOC_ID.
SyncTry(p) ==
    /\ spc[p] = "try"
    /\ IF syncVariant = "csv" /\ rowCount[p] < 2
       THEN /\ msg' = [msg EXCEPT ![p] = TooFewRows]
            /\ spc' = [spc EXCEPT ![p] = "catch"]
            /\ UNCHANGED <<rag_chunks, indexed>>
       ELSE /\ rag_chunks' = {}
            /\ indexed' = [indexed EXCEPT ![p] =
                              IF syncVariant = "csv" THEN 0 ELSE Len(todo[p])]
            /\ spc' = [spc EXCEPT ![p] = "loop"]
            /\ UNCHANGED msg
    /\ UNCHANGED <<syncVariant, sync_status, sourceLabel, rowCount, todo, statusId,
                   sresponse, statusWrite, wrote, finishedBefore>>
    /\ UNCHANGED outsideSync

\* CSV: the row loop up to its next insert (a full batch, or what is left
\* after the loop) and that insert; if (error) throw.
SyncInsertBatch(p) ==
    /\ syncVariant = "csv"
    /\ spc[p] = "loop"
    /\ todo[p] # <<>>
    /\ LET n == Min(BatchSize, Len(todo[p])) IN
       /\ indexed' = [indexed EXCEPT ![p] = indexed[p] + n]
       /\ \E error \in BOOLEAN :
            IF error
            THEN /\ msg' = [msg EXCEPT ![p] = InsertError]
                 /\ spc' = [spc EXCEPT ![p] = "catch"]
                 /\ UNCHANGED <<rag_chunks, todo>>
            ELSE /\ rag_chunks' = rag_chunks \cup
                        { [run |-> p, chunk_index |-> todo[p][i]] : i \in 1..n }
                 /\ todo' = [todo EXCEPT ![p] = SubSeq(todo[p], n + 1, Len(todo[p]))]
                 /\ UNCHANGED <<msg, spc>>
    /\ UNCHANGED <<syncVariant, sync_status, sourceLabel, rowCount, statusId,
                   sresponse, statusWrite, wrote, finishedBefore>>
    /\ UNCHANGED outsideSync

\* Embedding: await embed(chunks[i]); it throws when the service refuses.
SyncEmbed(p) ==
    /\ syncVariant = "embedding"
    /\ spc[p] = "loop"
    /\ todo[p] # <<>>
    /\ \E ok \in BOOLEAN :
        IF ok
        THEN spc' = [spc EXCEPT ![p] = "insert"] /\ msg' = msg
        ELSE /\ spc' = [spc EXCEPT ![p] = "catch"]
             /\ msg' = [msg EXCEPT ![p] = EmbeddingFailed]
    /\ UNCHANGED <<syncVariant, sync_status, rag_chunks, sourceLabel, rowCount, todo,
                   indexed, statusId, sresponse, statusWrite, wrote, finishedBefore>>
    /\ UNCHANGED outsideSync

\* Embedding: insert chunk i; if (error) throw.
SyncInsertChunk(p) ==
    /\ spc[p] = "insert"
    /\ \E error \in BOOLEAN :
        IF error
        THEN /\ msg' = [msg EXCEPT ![p] = InsertError]
             /\ spc' = [spc EXCEPT ![p] = "catch"]
             /\ UNCHANGED <<rag_chunks, todo>>
        ELSE /\ rag_chunks' = rag_chunks \cup {[run |-> p, chunk_index |-> Head(todo[p])]}
             /\ todo' = [todo EXCEPT ![p] = Tail(todo[p])]
             /\ spc' = [spc EXCEPT ![p] = "loop"]
             /\ UNCHANGED msg
    /\ UNCHANGED <<syncVariant, sync_status, sourceLabel, rowCount, indexed, statusId,
                   sresponse, statusWrite, wrote, finishedBefore>>
    /\ UNCHANGED outsideSync

\* The update to done: chunk_count, doc_title, error_message: null.
SyncMarkDone(p) ==
    /\ spc[p] = "loop"
    /\ todo[p] = <<>>
    /\ sync_status' = SetDone(sync_status, statusId[p], indexed[p],
                              IF syncVariant = "csv" THEN sourceLabel[p] ELSE KnowledgeBase)
    /\ statusWrite' = [statusWrite EXCEPT ![p] = [status |-> "done", error_message |-> Null]]
    /\ spc' = [spc EXCEPT ![p] = "respond"]
    /\ UNCHANGED <<syncVariant, rag_chunks, sourceLabel, rowCount, todo, indexed, statusId,
                   msg, sresponse, wrote, finishedBefore>>
    /\ UNCHANGED outsideSync

\* return new Response({ chunk_count })
SyncRespond(p) ==
    /\ spc[p] = "respond"
    /\ sresponse' = [sresponse EXCEPT ![p] =
                        [status |-> 200, error |-> Null, chunk_count |-> indexed[p]]]
    /\ spc' = [spc EXCEPT ![p] = "done"]
    /\ UNCHANGED <<syncVariant, sync_status, rag_chunks, sourceLabel, rowCount, todo,
                   indexed, statusId, msg, statusWrite, wrote, finishedBefore>>
    /\ UNCHANGED outsideSync

\* A catch that answers without touching the status row.
SyncCatchWithoutUpdate(p) ==
    /\ spc[p] = "catch"
    /\ spc' = [spc EXCEPT ![p] = "respondError"]
    /\ UNCHANGED <<syncVariant, sync_status, rag_chunks, sourceLabel, rowCount, todo, indexed,
                   statusId, msg, sresponse, statusWrite, wrote, finishedBefore>>
    /\ UNCHANGED outsideSync

\* catch: the update to error with the message.
SyncMarkError(p) ==
    /\ spc[p] = "catch"
    /\ sync_status' = SetStatus(sync_status, statusId[p], "error", msg[p])
    /\ statusWrite' = [statusWrite EXCEPT ![p] = [status |-> "error", error_message |-> msg[p]]]
    /\ spc' = [spc EXCEPT ![p] = "respondError"]
    /\ UNCHANGED <<syncVariant, rag_chunks, sourceLabel, rowCount, todo, indexed, statusId,
                   msg, sresponse, wrote, finishedBefore>>
    /\ UNCHANGED outsideSync

\* return new Response({ error: msg }, { status: 500 })
SyncRespondError(p) ==
    /\ spc[p] = "respondError"
    /\ sresponse' = [sresponse EXCEPT ![p] =
                        [status |-> 500, error |-> msg[p], chunk_count |-> 0]]
    /\ spc' = [spc EXCEPT ![p] = "done"]
    /\ UNCHANGED <<syncVariant, sync_status, rag_chunks, sourceLabel, rowCount, todo,
                   indexed, statusId, msg, statusWrite, wrote, finishedBefore>>
    /\ UNCHANGED outsideSync

SyncNext ==
    \E p \in Syncs :
        \/ SyncAuthenticate(p)
        \/ SyncVerifyAdmin(p)
        \/ SyncBody(p)
        \/ SyncSelectStatus(p)
        \/ SyncEnsureStatus(p)
        \/ SyncTry(p)
        \/ SyncInsertBatch(p)
        \/ SyncEmbed(p)
        \/ SyncInsertChunk(p)
        \/ SyncMarkDone(p)
        \/ SyncRespond(p)
        \/ SyncMarkError(p)
        \/ SyncRespondError(p)

SyncSpec == SyncInit /\ [][SyncNext]_allVars

C16_TooFewRowsIs400 ==
    \A p \in Syncs :
        (syncVariant = "csv" /\ spc[p] = "done" /\ sresponse[p].status \notin {401, 403}
            /\ rowCount[p] < 2) => sresponse[p].status = 400

\* C17: an invocation answered 403 has written to neither table, and the
\* step that answers 403 leaves sync_status and rag_chunks as they were.
C17_ForbiddenChangesNothing ==
    [][\A p \in Syncs :
          sresponse'[p].status = 403 =>
              /\ ~wrote'[p]
              /\ sresponse[p].status = 0 =>
                    (sync_status' = sync_status /\ rag_chunks' = rag_chunks)]_allVars

C17_Witness ==
    \E p \in Syncs : sresponse[p].status = 403 /\ rag_chunks # {}

C19_DoneMatchesStore ==
    [][\A p \in Syncs :
          (sresponse[p].status = 0 /\ sresponse'[p].status = 200) =>
              /\ \E r \in sync_status' :
                    /\ r.id = statusId[p]
                    /\ r.status = "done"
                    /\ r.chunk_count = sresponse'[p].chunk_count
                    /\ r.doc_title = sourceLabel[p]
                    /\ r.error_message = Null
              /\ Cardinality(rag_chunks') = sresponse'[p].chunk_count]_allVars

\* C20: once an invocation has made sure of its status row, sync_status
\* holds exactly one row.
C20_OneStatusRow ==
    (\E p \in Syncs : statusId[p] # Null /\ spc[p] # "ensure") => Cardinality(sync_status) = 1

\* C21: no two chunks of rag_chunks (all of one doc_id) carry the same
\* chunk_index.
C21_ChunkIndexUnique ==
    \A c, d \in rag_chunks : c.chunk_index = d.chunk_index => c = d

\* An invocation has deleted the chunks of its doc_id and has not yet
\* inserted the last of its own.
Replacing(p) ==
    \/ spc[p] = "loop" /\ todo[p] # <<>>
    \/ spc[p] = "insert"

\* C26: while an invocation is between its delete and its last insert, every
\* row of sync_status reads syncing.
C26_SyncingWhileReplacing ==
    (\E p \in Syncs : Replacing(p)) => \A r \in sync_status : r.status = "syncing"

-----------------------------------------------------------------------------
(* Retrieval and prompt composition of the /chat handler                     *)
(* (src/unnamed/part_008:45-121, the same code at 276-352 and in             *)
(* src/supabase/functions/chat/index.ts:45-147).  Strings are sequences of   *)
(* characters; a literal of the code that nothing looks inside is one        *)
(* element.                                                                  *)

\* keywords.slice(0, 5)
FilterKeywords == 5
\* .limit(12)
QueryLimit == 12
\* scored.slice(0, 6) and .limit(6)
TopChunks == 6
\* c.content.slice(0, 250)
ExcerptLength == 250

LowerCase == <<"a", "b", "c", "d", "e", "f", "g", "h", "i", "j", "k", "l", "m", "n", "o", "p", "q", "r", "s", "t", "u", "v", "w", "x", "y", "z">>
UpperCase == <<"A", "B", "C", "D", "E", "F", "G", "H", "I", "J", "K", "L", "M", "N", "O", "P", "Q", "R", "S", "T", "U", "V", "W", "X", "Y", "Z">>
Digits == {"0", "1", "2", "3", "4", "5", "6", "7", "8", "9"}

\* toLowerCase(), one character
ToLower(ch) ==
    IF \E i \in 1..Len(UpperCase) : UpperCase[i] = ch
    THEN LowerCase[CHOOSE i \in 1..Len(UpperCase) : UpperCase[i] = ch]
    ELSE ch

LowerStr(str) == [i \in 1..Len(str) |-> ToLower(str[i])]

\* \w
IsWord(ch) ==
    \/ \E i \in 1..Len(LowerCase) : LowerCase[i] = ch \/ UpperCase[i] = ch
    \/ ch \in Digits
    \/ ch = "_"

\* .replace(/[^\w\s]/g, " ")
ReplaceNonWord(str) ==
    [i \in 1..Len(str) |-> IF IsWord(str[i]) \/ IsWhite(str[i]) THEN str[i] ELSE " "]

\* .split(/\s+/): the runs between white space (an empty string where the
\* text begins or ends with white space).
RECURSIVE SplitWhite(_, _)
SplitWhite(str, cur) ==
    IF str = <<>> THEN <<cur>>
    ELSE IF IsWhite(Head(str))
         THEN <<cur>> \o SplitWhite(TrimLeft(str), <<>>)
         ELSE SplitWhite(Tail(str), Append(cur, Head(str)))

StopWords ==
    { <<"t", "h", "e">>,
      <<"a", "n", "d">>,
      <<"f", "o", "r">>,
      <<"a", "r", "e">>,
      <<"w", "a", "s">>,
      <<"t", "h", "a", "t">>,
      <<"w", "i", "t", "h">>,
      <<"t", "h", "i", "s">>,
      <<"h", "a", "v", "e">>,
      <<"f", "r", "o", "m">>,
      <<"n", "o", "t">>,
      <<"w", "h", "a", "t">>,
      <<"h", "o", "w">>,
      <<"w", "h", "o">>,
      <<"w", "h", "e", "n">>,
      <<"w", "h", "e", "r", "e">>,
      <<"w", "h", "i", "c", "h">> }

\* question.toLowerCase().replace(...).split(/\s+/).filter(w => w.length > 2 && !stop.includes(w))
Keywords(q) ==
    SelectSeq(SplitWhite(ReplaceNonWord(LowerStr(q)), <<>>),
              LAMBDA w : Len(w) > 2 /\ w \notin StopWords)

Take(seq, n) == SubSeq(seq, 1, Min(n, Len(seq)))

\* lower.includes(k)
Includes(str, k) ==
    \E i \in 0..(Len(str) - Len(k)) : \A j \in 1..Len(k) : str[i + j] = k[j]

\* content ILIKE '%k%': case-insensitive, and _ in the pattern stands for any
\* one character (a keyword holds no %).
ILike(str, k) ==
    \E i \in 0..(Len(str) - Len(k)) :
        \A j \in 1..Len(k) : k[j] = "_" \/ ToLower(str[i + j]) = ToLower(k[j])

\* .eq("doc_id", "csv-kb").or(filter).limit(12) over the first 5 keywords
KeywordQuery(store, kws) ==
    Take(SelectSeq(store, LAMBDA c :
            \E n \in 1..Min(FilterKeywords, Len(kws)) : ILike(c.content, kws[n])),
         QueryLimit)

\* { ...c, score }: keywords.filter(k => lower.includes(k)).length
Scored(rows, kws) ==
    [i \in 1..Len(rows) |->
        [c |-> rows[i],
         score |-> Len(SelectSeq(kws, LAMBDA k : Includes(LowerStr(rows[i].content), k)))]]

\* scored.sort((a, b) => b.score - a.score): descending, elements that
\* compare equal keep their order (Array.prototype.sort is stable).
SortByScore(scored) ==
    LET pos(i) == 1 + Cardinality({ j \in 1..Len(scored) :
                        \/ scored[j].score > scored[i].score
                        \/ scored[j].score = scored[i].score /\ j < i })
    IN  [n \in 1..Len(scored) |-> scored[CHOOSE i \in 1..Len(scored) : pos(i) = n]]

\* (c.metadata?.row_number as number | undefined) ?? c.chunk_index + 2
\* (a missing row_number is the empty sequence)
RowNum(c) == IF c.row_number # <<>> THEN c.row_number[1] ELSE c.chunk_index + 2

\* chunks.map(c => `[Row ${rowNum}]\n${c.content}`).join("\n\n")
ContextBlock(rows) ==
    JoinWith([i \in 1..Len(rows) |-> <<"[Row ", ToString(RowNum(rows[i])), "]\n">>
                                        \o rows[i].content],
             <<"\n\n">>)

PreciseAssistant == "You are a precise data assistant. ..."
NoKnowledgeBase == "You are a helpful assistant. No knowledge base has been synced yet. ..."

\* A row of rag_chunks as sync-doc writes it: metadata.row_number is
\* chunk_index + 2.
Chunk(i, text) ==
    [id |-> i, chunk_index |-> i, content |-> text, row_number |-> <<i + 2>>]

\* Stores: empty; three rows; more rows than a fallback returns; more
\* matching rows than the keyword query returns.
RagStores ==
    { <<>>,
      << Chunk(0, <<"a", "b", "c">>), Chunk(1, <<"x", "y", "z", " ", "d", "e", "f">>), Chunk(3, <<"a", "X", "c">>) >>,
      [i \in 1..(TopChunks + 1) |-> Chunk(i - 1, <<"r", "o", "w">>)],
      [i \in 1..(QueryLimit + 1) |->
          Chunk(i - 1, IF i > QueryLimit - 1 THEN <<"a", "b", "c", " ", "x", "y", "z">> ELSE <<"a", "b", "c">>)] }

\* Questions: stop words only; one keyword; a keyword with an underscore; a
\* keyword said twice; a keyword no row holds; six keywords.
RagQuestions ==
    { <<"t", "h", "e", " ", "w", "a", "s", "?">>,
      <<"A", "b", "c", "?">>,
      <<"a", "_", "c">>,
      <<"a", "b", "c", " ", "a", "b", "c", " ", "x", "y", "z", " ", "d", "e", "f">>,
      <<"z", "z", "z">>,
      <<"a", "b", "c", " ", "d", "e", "f", " ", "g", "h", "i", " ", "j", "k", "l", " ", "m", "n", "o", " ", "x", "y", "z">> }

RagInit ==
    /\ ragQuestion \in RagQuestions
    /\ ragStore \in RagStores
    /\ rpc = "extract"
    /\ ragKeywords = <<>>
    /\ ragData = <<>>
    /\ ragChunks = <<>>
    /\ ragPrompt = NoPrompt
    /\ ragCitations = <<>>
    /\ ragResponse = NoRagResponse
    /\ ragFailed = {}
    /\ RelayIdle
    /\ ChatIdle
    /\ CsvIdle
    /\ SyncIdle
    /\ PageIdle

\* const keywords = ...; if (keywords.length > 0) the filtered query is next.
RagExtract ==
    /\ rpc = "extract"
    /\ ragKeywords' = Keywords(ragQuestion)
    /\ rpc' = IF ragKeywords' # <<>> THEN "keywordQuery" ELSE "fallbackQuery"
    /\ UNCHANGED <<ragQuestion, ragStore, ragData, ragChunks, ragPrompt, ragCitations,
                   ragResponse, ragFailed>>
    /\ UNCHANGED outsideRag

\* The filtered query; if (error) throw (the catch answers 500); score, sort,
\* slice(0, 6).
RagKeywordQuery ==
    /\ rpc = "keywordQuery"
    /\ \E err \in BOOLEAN :
        IF err
        THEN /\ ragFailed' = ragFailed \cup {"keyword"}
             /\ ragResponse' = [status |-> 500, citations |-> <<>>]
             /\ rpc' = "done"
             /\ UNCHANGED <<ragData, ragChunks>>
        ELSE /\ ragData' = KeywordQuery(ragStore, ragKeywords)
             /\ LET sorted == SortByScore(Scored(ragData', ragKeywords)) IN
                ragChunks' = Take([i \in 1..Len(sorted) |-> sorted[i].c], TopChunks)
             /\ rpc' = IF ragChunks' = <<>> THEN "fallbackQuery" ELSE "compose"
             /\ UNCHANGED <<ragFailed, ragResponse>>
    /\ UNCHANGED <<ragQuestion, ragStore, ragKeywords, ragPrompt, ragCitations>>
    /\ UNCHANGED outsideRag

\* if (chunks.length === 0): .limit(6); chunks = data ?? [] (the error is
\* not read).
RagFallbackQuery ==
    /\ rpc = "fallbackQuery"
    /\ \E err \in BOOLEAN :
        IF err
        THEN ragFailed' = ragFailed \cup {"fallback"} /\ ragChunks' = <<>>
        ELSE ragFailed' = ragFailed /\ ragChunks' = Take(ragStore, TopChunks)
    /\ rpc' = "compose"
    /\ UNCHANGED <<ragQuestion, ragStore, ragKeywords, ragData, ragPrompt, ragCitations,
                   ragResponse>>
    /\ UNCHANGED outsideRag

\* A composer whose citations number the rows by their rank.
RagComposeRowByRank ==
    /\ rpc = "compose"
    /\ LET hasContext == Len(ragChunks) > 0 IN
       /\ ragPrompt' =
            [system |-> IF hasContext THEN PreciseAssistant ELSE NoKnowledgeBase,
             user |-> IF hasContext
                      THEN <<"Data rows:\n">> \o ContextBlock(ragChunks)
                               \o <<"\n\nQuestion: ">> \o ragQuestion
                      ELSE ragQuestion]
       /\ ragCitations' =
            IF hasContext
            THEN [i \in 1..Len(ragChunks) |->
                    [chunk_id |-> ragChunks[i].id,
                     chunk_index |-> ragChunks[i].chunk_index,
                     excerpt |-> Take(ragChunks[i].content, ExcerptLength),
                     row_number |-> i,
                     reference |-> i]]
            ELSE <<>>
    /\ rpc' = "llm"
    /\ UNCHANGED <<ragQuestion, ragStore, ragKeywords, ragData, ragChunks, ragResponse,
                   ragFailed>>
    /\ UNCHANGED outsideRag

\* A composer that sends the data prompt whether or not it has rows.
RagComposeAlwaysData ==
    /\ rpc = "compose"
    /\ ragPrompt' =
            [system |-> PreciseAssistant,
             user |-> <<"Data rows:\n">> \o ContextBlock(ragChunks)
                          \o <<"\n\nQuestion: ">> \o ragQuestion]
    /\ ragCitations' =
            [i \in 1..Len(ragChunks) |->
                [chunk_id |-> ragChunks[i].id,
                 chunk_index |-> ragChunks[i].chunk_index,
                 excerpt |-> Take(ragChunks[i].content, ExcerptLength),
                 row_number |-> RowNum(ragChunks[i]),
                 reference |-> i]]
    /\ rpc' = "llm"
    /\ UNCHANGED <<ragQuestion, ragStore, ragKeywords, ragData, ragChunks, ragResponse,
                   ragFailed>>
    /\ UNCHANGED outsideRag

\* hasContext, contextBlock, systemPrompt, userPrompt, citations.
RagCompose ==
    /\ rpc = "compose"
    /\ LET hasContext == Len(ragChunks) > 0 IN
       /\ ragPrompt' =
            [system |-> IF hasContext THEN PreciseAssistant ELSE NoKnowledgeBase,
             user |-> IF hasContext
                      THEN <<"Data rows:\n">> \o ContextBlock(ragChunks)
                               \o <<"\n\nQuestion: ">> \o ragQuestion
                      ELSE ragQuestion]
       /\ ragCitations' =
            IF hasContext
            THEN [i \in 1..Len(ragChunks) |->
                    [chunk_id |-> ragChunks[i].id,
                     chunk_index |-> ragChunks[i].chunk_index,
                     excerpt |-> Take(ragChunks[i].content, ExcerptLength),
                     row_number |-> RowNum(ragChunks[i]),
                     reference |-> i]]
            ELSE <<>>
    /\ rpc' = "llm"
    /\ UNCHANGED <<ragQuestion, ragStore, ragKeywords, ragData, ragChunks, ragResponse,
                   ragFailed>>
    /\ UNCHANGED outsideRag

\* The completion call with the two prompts; on 2xx the citations go to the
\* caller (SSE preamble or JSON body) and into the assistant row.
RagComplete ==
    /\ rpc = "llm"
    /\ \E ok \in BOOLEAN :
        ragResponse' = IF ok THEN [status |-> 200, citations |-> ragCitations]
                       ELSE [status |-> 500, citations |-> <<>>]
    /\ rpc' = "done"
    /\ UNCHANGED <<ragQuestion, ragStore, ragKeywords, ragData, ragChunks, ragPrompt,
                   ragCitations, ragFailed>>
    /\ UNCHANGED outsideRag

RagNext ==
    \/ RagExtract
    \/ RagKeywordQuery
    \/ RagFallbackQuery
    \/ RagCompose
    \/ RagComplete

RagSpec == RagInit /\ [][RagNext]_allVars

Retrieved == rpc \in {"compose", "llm"} \/ (rpc = "done" /\ ragPrompt # NoPrompt)

\* No row of the store holds any of the keywords.
NoKeywordInStore ==
    \A i \in 1..Len(ragStore), n \in 1..Len(ragKeywords) :
        ~Includes(LowerStr(ragStore[i].content), ragKeywords[n])

\* C22: when both queries succeed, retrieval returns at most 6 chunks, and
\* with a store that is not empty and no row holding any keyword it returns
\* exactly min(6, rows of the store).
C22_AtMostSixAndFallback ==
    (Retrieved /\ ragFailed = {}) =>
        /\ Len(ragChunks) <= TopChunks
        /\ (ragStore # <<>> /\ NoKeywordInStore) =>
              Len(ragChunks) = Min(TopChunks, Len(ragStore))

\* C23: with an empty store the prompt sent is the no-knowledge-base system
\* prompt with the bare question, and the citations composed and returned
\* are empty.
C23_EmptyStorePrompt ==
    (ragStore = <<>> /\ ragPrompt # NoPrompt) =>
        /\ ragPrompt = [system |-> NoKnowledgeBase, user |-> ragQuestion]
        /\ ragCitations = <<>>
        /\ ragResponse.citations = <<>>

C23_Witness ==
    /\ ragStore = <<>>
    /\ ragKeywords # <<>>
    /\ ragFailed = {}
    /\ ragResponse.status = 200

\* C24: with chunks retrieved, the user prompt is "Data rows:\n", the chunks
\* in rank order each as "[Row n]\n" and its content, joined by a blank
\* line, "\n\nQuestion: " and the question; citation i carries the row
\* number rendered for chunk i.
C24_DataPrompt ==
    (ragChunks # <<>> /\ ragPrompt # NoPrompt) =>
        /\ ragPrompt.user =
              <<"Data rows:\n">>
                \o JoinWith([i \in 1..Len(ragChunks) |->
                               <<"[Row ", ToString(ragChunks[i].row_number[1]), "]\n">>
                                 \o ragChunks[i].content], <<"\n\n">>)
                \o <<"\n\nQuestion: ">> \o ragQuestion
        /\ Len(ragCitations) = Len(ragChunks)
        /\ \A i \in 1..Len(ragChunks) :
              ragCitations[i].row_number = ragChunks[i].row_number[1]

C24_Witness ==
    /\ Len(ragChunks) > 1
    /\ ragChunks[1].chunk_index > ragChunks[2].chunk_index
    /\ ragResponse.status = 200

\* The first 5 keywords, each once.
DistinctKeywords == { ragKeywords[n] : n \in 1..Min(FilterKeywords, Len(ragKeywords)) }

\* C25: on the scored path the chunks are the first 6 of the query's rows
\* sorted stably by descending number of distinct keywords (of the first 5)
\* their lower-cased content holds.
C25_StableTopSix ==
    (Retrieved /\ ragData # <<>>) =>
        LET byDistinct == SortByScore(
                [i \in 1..Len(ragData) |->
                    [c |-> ragData[i],
                     score |-> Cardinality({ k \in DistinctKeywords :
                                   Includes(LowerStr(ragData[i].content), k) })]])
        IN  ragChunks = Take([i \in 1..Len(byDistinct) |-> byDistinct[i].c], TopChunks)

\* C27: after a query failed no prompt is sent to the completion service and
\* the invocation ends in an error response.
C27_QueryFailureIsError ==
    ragFailed # {} =>
        /\ ragPrompt = NoPrompt
        /\ rpc = "done" => ragResponse.status = 500

-----------------------------------------------------------------------------
(* The chat page: handleSend calls and conversation selection                *)
(* (src/src/pages/ChatPage.tsx, src/unnamed/part_004).  A handleSend call    *)
(* runs from one await to the next; between two awaits the user may act.     *)

\* Largest number of tokens of an answer.
MaxTokens == 2

\* Conversations of the sidebar.
Conversations == {"c1", "c2"}

PageInit ==
    /\ activeId = Null
    /\ isStreaming = FALSE
    /\ streamingContent = NoContent
    /\ sendPc = [h \in Sends |-> "idle"]
    /\ sendConv = [h \in Sends |-> Null]
    /\ accumulatedLen = [h \in Sends |-> 0]
    /\ displayed = Null
    /\ RelayIdle
    /\ ChatIdle
    /\ CsvIdle
    /\ SyncIdle
    /\ RagIdle

\* What finally does: setStreamingContent(""), setIsStreaming(false).
Finally ==
    /\ streamingContent' = NoContent
    /\ isStreaming' = FALSE

\* handleSelectConversation(id)
SelectConversation ==
    /\ \E id \in Conversations : activeId' = id
    /\ streamingContent' = NoContent
    /\ isStreaming' = FALSE
    /\ UNCHANGED <<sendPc, sendConv, accumulatedLen, displayed>>
    /\ UNCHANGED outsidePage

\* ChatInput.handleSend: if (!trimmed || disabled || loading) return;
\* onSend(trimmed): handleSend up to its first await (createConversation
\* without an active conversation, addMessage with one).
InputSend(h) ==
    /\ ~isStreaming
    /\ sendPc[h] = "idle"
    /\ sendConv' = [sendConv EXCEPT ![h] = activeId]
    /\ sendPc' = [sendPc EXCEPT ![h] = IF activeId = Null THEN "create" ELSE "add"]
    /\ UNCHANGED <<activeId, isStreaming, streamingContent, accumulatedLen, displayed>>
    /\ UNCHANGED outsidePage

\* convId = await createConversation(); if (!convId) return; setActiveId(convId)
Created(h) ==
    /\ sendPc[h] = "create"
    /\ \E ok \in BOOLEAN :
        IF ok
        THEN /\ sendConv' = [sendConv EXCEPT ![h] = h]
             /\ activeId' = h
             /\ sendPc' = [sendPc EXCEPT ![h] = "add"]
        ELSE /\ sendPc' = [sendPc EXCEPT ![h] = "done"]
             /\ UNCHANGED <<sendConv, activeId>>
    /\ UNCHANGED <<isStreaming, streamingContent, accumulatedLen, displayed>>
    /\ UNCHANGED outsidePage

\* await addMessage(...); setStreamingContent(""); setIsStreaming(true);
\* then getSession and fetch.
BeginStreaming(h) ==
    /\ sendPc[h] = "add"
    /\ streamingContent' = NoContent
    /\ isStreaming' = TRUE
    /\ displayed' = h
    /\ sendPc' = [sendPc EXCEPT ![h] = "fetch"]
    /\ UNCHANGED <<activeId, sendConv, accumulatedLen>>
    /\ UNCHANGED outsidePage

\* resp = await fetch(...): if (!resp.ok) throw (catch, finally); else read.
Fetched(h) ==
    /\ sendPc[h] = "fetch"
    /\ \E ok \in BOOLEAN :
        IF ok
        THEN /\ sendPc' = [sendPc EXCEPT ![h] = "read"]
             /\ UNCHANGED <<streamingContent, isStreaming>>
        ELSE /\ sendPc' = [sendPc EXCEPT ![h] = "done"]
             /\ Finally
    /\ UNCHANGED <<activeId, sendConv, accumulatedLen, displayed>>
    /\ UNCHANGED outsidePage

\* await reader.read() with a delta: accumulated += delta;
\* setStreamingContent(accumulated)
ReadDelta(h) ==
    /\ sendPc[h] = "read"
    /\ accumulatedLen[h] < MaxTokens
    /\ accumulatedLen' = [accumulatedLen EXCEPT ![h] = accumulatedLen[h] + 1]
    /\ streamingContent' = [send |-> h, len |-> accumulatedLen[h] + 1]
    /\ UNCHANGED <<activeId, isStreaming, sendPc, sendConv, displayed>>
    /\ UNCHANGED outsidePage

\* [DONE] or the end of the body: await refreshMessages()
ReadDone(h) ==
    /\ sendPc[h] = "read"
    /\ sendPc' = [sendPc EXCEPT ![h] = "refresh"]
    /\ UNCHANGED <<activeId, isStreaming, streamingContent, sendConv, accumulatedLen,
                   displayed>>
    /\ UNCHANGED outsidePage

\* refreshMessages settles; finally.
Refreshed(h) ==
    /\ sendPc[h] = "refresh"
    /\ sendPc' = [sendPc EXCEPT ![h] = "done"]
    /\ Finally
    /\ UNCHANGED <<activeId, sendConv, accumulatedLen, displayed>>
    /\ UNCHANGED outsidePage

PageNext ==
    \/ SelectConversation
    \/ \E h \in Sends :
        \/ InputSend(h)
        \/ Created(h)
        \/ BeginStreaming(h)
        \/ Fetched(h)
        \/ ReadDelta(h)
        \/ ReadDone(h)
        \/ Refreshed(h)

PageSpec == PageInit /\ [][PageNext]_allVars

\* The handleSend calls that have begun and not finished.
InFlight == { h \in Sends : sendPc[h] \notin {"idle", "done"} }

\* C29: at most one handleSend call is under way.
C29_OneInFlight == Cardinality(InFlight) <= 1

\* C30: while the streaming bubble shows text, the text is of the call that
\* set isStreaming last, and that call was sent from the conversation shown.
C30_BubbleShowsActiveRequest ==
    (isStreaming /\ streamingContent # NoContent) =>
        /\ streamingContent.send = displayed
        /\ sendConv[displayed] = activeId

-----------------------------------------------------------------------------
(* The relay under a scheduler that runs every continuation that is ready,   *)
(* with a caller that reads the body it is given.                            *)

\* The event loop runs each handler and task step that can run; the page
\* takes the Response and reads on.  Nothing obliges the caller to leave.
Fairness ==
    /\ WF_vars(Authenticate)
    /\ WF_vars(Validate)
    /\ WF_vars(CallLLM)
    /\ WF_vars(NewTransformStream)
    /\ WF_vars(WritePreamble)
    /\ WF_vars(ReturnResponse)
    /\ WF_vars(RelayRead)
    /\ WF_vars(RelayFlush)
    /\ WF_vars(Persist)
    /\ WF_vars(RelayClose)
    /\ WF_vars(CollectRead)
    /\ WF_vars(StartReplay)
    /\ WF_vars(ReplayStep)
    /\ WF_vars(ClientResponse)
    /\ WF_vars(ClientRead)
    /\ WF_vars(ClientEnd)

FairSpec == Spec /\ Fairness

\* C28: in persist-after-forward, once the completion call has returned 2xx
\* the handler eventually returns the SSE Response and the stream is
\* eventually closed, provided the caller does not go away.
C28_ResponseEventually ==
    [](~cancelled) => ((variant = Forward /\ pc = "stream") ~> (res = 200 /\ closed))

====
